---- MODULE Spec2Model ----
(***************************************************************************)
(* DeskFlow storage layer (src/src/data/storage.py): the JSON files of the *)
(* data directory, the backup directory, the atomic writer _write_json,    *)
(* the backup rotation, the corruption recovery and the collection store.  *)
(*                                                                         *)
(* A file is a sequence of tokens ("bytes"); json.dump produces the token  *)
(* sequence of a value and json.load parses one back or fails, so that a   *)
(* truncated or overwritten file is a different, unparsable value.         *)
(***************************************************************************)
EXTENDS Naturals, Integers, Sequences, FiniteSets

VARIABLES
    disk,      \* DATA_DIR: file name -> [exists, bytes, mtime]
    scratch,   \* the .tmp_*.json file of the _write_json call in progress
    backups,   \* BACKUP_DIR: set of [stem, sec, bytes, mtime]
    now,       \* wall clock in whole seconds (datetime.now() of backup names)
    tick,      \* file-system clock: the mtime the next written file gets
    platform,  \* "posix" | "windows": decides what os.rename does
    wj,        \* the _write_json call in progress, step by step
    last,      \* what the last storage operation did and returned
    nops,      \* number of operations performed so far
    tasks,     \* the task records of tasks.json as the views and the editor see them
    dlg,       \* the TaskFormDialog on screen: self.task, dependency_vars, the timer widget
    ev,        \* what the last user-interface handler did
    hp,        \* the call of _check_circular_dependency in progress, frame by frame
    obj,       \* a Task object under construction and update
    sv         \* the save_task calls of two threads, each step by step

vars == <<disk, scratch, backups, now, tick, platform, wj, last, nops,
          tasks, dlg, ev, hp, obj, sv>>

\* the state of the storage layer and the state of the task views, each
\* with the calls of the two threads, which only their own steps change
storageVars == <<disk, scratch, backups, now, tick, platform, wj, last, sv>>
uiVars == <<tasks, dlg, ev, hp, obj, sv>>

----------------------------------------------------------------------------
(* Bounds of the model.                                                    *)

MaxWrites == 2      \* _write_json calls followed step by step
MaxOps == 3         \* storage operations in one run of the collection store
MaxSaves == 8       \* successive saves in one run of the backup rotation

(* Program constant.                                                       *)
MAX_BACKUPS == 7

Files == {"projects", "tasks", "settings"}
Collections == {"projects", "tasks"}
SETTINGS_FILE == "settings"

Ids == {"a", "b"}
Names == {"n1", "n2"}
Themes == {"system", "dark"}

----------------------------------------------------------------------------
(* Record codec.                                                           *)

ClassOf(f) == IF f = "projects" THEN "Project" ELSE "Task"

\* Project.__init__ / Task.__init__ with an id and the remaining fields
NewEntity(cls, id, name) == [cls |-> cls, id |-> id, name |-> name]

\* Project.to_dict / Task.to_dict: the JSON object of an entity
ToDict(e) == [id |-> e.id, name |-> e.name]

\* Project.from_dict / Task.from_dict
FromDict(cls, d) == NewEntity(cls, d.id, d.name)

DEFAULT_SETTINGS == [theme |-> "system"]

\* Settings.from_dict / Settings.__init__
SettingsFromDict(d) == [cls |-> "Settings", theme |-> d.theme]

\* Settings.to_dict
SettingsToDict(s) == [theme |-> s.theme]

Entities(f) == {NewEntity(ClassOf(f), i, n) : i \in Ids, n \in Names}

----------------------------------------------------------------------------
(* JSON text: json.dump and json.load.                                     *)

TokOpen == [t |-> "["]
TokClose == [t |-> "]"]
TokObj(d) == [t |-> "obj", v |-> d]
TokJunk == [t |-> "#"]        \* text that is not JSON
TokBinary == [t |-> "xff"]    \* bytes that are not UTF-8 text

RECURSIVE DumpItems(_)
DumpItems(items) ==
    IF items = <<>> THEN <<>>
    ELSE <<TokObj(Head(items))>> \o DumpItems(Tail(items))

\* json.dump of a list of objects
JsonDumpList(items) == <<TokOpen>> \o DumpItems(items) \o <<TokClose>>

\* json.dump of one object (settings.json)
JsonDumpObj(d) == <<TokObj(d)>>

\* json.load succeeds on a complete document only
IsListText(b) ==
    /\ Len(b) >= 2
    /\ b[1].t = "["
    /\ b[Len(b)].t = "]"
    /\ \A i \in 2..(Len(b) - 1) : b[i].t = "obj"

IsObjText(b) == Len(b) = 1 /\ b[1].t = "obj"

\* open(file_path, 'r', encoding='utf-8') followed by f.read() succeeds
Decodable(b) == \A i \in 1..Len(b) : b[i].t # "xff"

Parsable(b) == IsListText(b) \/ IsObjText(b)

\* json.load of a list document: the objects between the brackets
JsonLoadList(b) == [i \in 1..(Len(b) - 2) |-> b[i + 1].v]

\* json.load of an object document
JsonLoadObj(b) == b[1].v

----------------------------------------------------------------------------
(* Files.                                                                  *)

NoFile == [exists |-> FALSE, bytes |-> <<>>, mtime |-> 0]
MkFile(b, m) == [exists |-> TRUE, bytes |-> b, mtime |-> m]

Prefix(b, n) == [i \in 1..n |-> b[i]]

Idle == [pc |-> "idle", path |-> "tasks", data |-> <<>>, old |-> NoFile,
         at |-> "idle"]
NoOp == [op |-> "none", file |-> "none", arg |-> [none |-> TRUE],
         outcome |-> "ok", value |-> [k |-> "none"], before |-> NoFile,
         bks |-> {}, at |-> 0, repeat |-> FALSE]

\* StorageManager.__init__: _ensure_data_files writes the three files
InitDisk ==
    [f \in Files |->
        IF f = SETTINGS_FILE THEN MkFile(JsonDumpObj(DEFAULT_SETTINGS), 0)
        ELSE MkFile(JsonDumpList(<<>>), 0)]

----------------------------------------------------------------------------
(* _write_json, step by step.                                              *)

\* the documents the callers hand to _write_json
WriteInputs(f) ==
    IF f = SETTINGS_FILE
    THEN {JsonDumpObj([theme |-> th]) : th \in Themes}
    ELSE {JsonDumpList(<<ToDict(e)>>) : e \in Entities(f)}
         \cup {JsonDumpList(<<ToDict(NewEntity(ClassOf(f), "a", "n1")),
                              ToDict(NewEntity(ClassOf(f), "b", n))>>) :
                  n \in Names}

\* os.rename(src, dst): replaces dst atomically on POSIX; on Windows it
\* raises FileExistsError when dst exists
RenameReplaces(pf, target) == pf = "posix" \/ ~target.exists

WjBusy == wj.pc \in {"dump", "move", "copy"}

\* tempfile.mkstemp(dir=file_path.parent): the scratch file is created empty
WjCall(f, data) ==
    /\ ~WjBusy
    /\ wj.pc # "crashed"
    /\ nops < MaxWrites
    /\ wj' = [pc |-> "dump", path |-> f, data |-> data, old |-> disk[f],
              at |-> "dump"]
    /\ scratch' = MkFile(<<>>, tick)
    /\ nops' = nops + 1
    /\ UNCHANGED uiVars /\ UNCHANGED <<disk, backups, now, tick, platform, last>>

\* json.dump(data, f): one more token reaches the scratch file; the with
\* block closes it after the last one
WjDump ==
    /\ wj.pc = "dump"
    /\ LET n == Len(scratch.bytes) + 1
       IN /\ scratch' = MkFile(Prefix(wj.data, n), tick)
          /\ wj' = [wj EXCEPT !.pc = IF n = Len(wj.data) THEN "move" ELSE "dump",
                              !.at = IF n = Len(wj.data) THEN "move" ELSE "dump"]
    /\ UNCHANGED uiVars /\ UNCHANGED <<disk, backups, now, tick, platform, last, nops>>

\* an exception while writing the scratch file: the handler unlinks the
\* scratch file and re-raises
WjDumpFails ==
    /\ wj.pc = "dump"
    /\ scratch' = NoFile
    /\ wj' = [wj EXCEPT !.pc = "raised"]
    /\ UNCHANGED uiVars /\ UNCHANGED <<disk, backups, now, tick, platform, last, nops>>

\* shutil.move: os.rename succeeds
WjRename ==
    /\ wj.pc = "move"
    /\ RenameReplaces(platform, disk[wj.path])
    /\ disk' = [disk EXCEPT ![wj.path] = scratch]
    /\ scratch' = NoFile
    /\ tick' = tick + 1
    /\ wj' = [wj EXCEPT !.pc = "returned", !.at = "moved"]
    /\ UNCHANGED uiVars /\ UNCHANGED <<backups, now, platform, last, nops>>

\* shutil.move: os.rename raises OSError and move falls back to
\* copy2(src, dst); open(dst, 'wb') truncates the target
WjCopyOpen ==
    /\ wj.pc = "move"
    /\ ~RenameReplaces(platform, disk[wj.path])
    /\ disk' = [disk EXCEPT ![wj.path] = MkFile(<<>>, tick)]
    /\ wj' = [wj EXCEPT !.pc = "copy", !.at = "copy"]
    /\ UNCHANGED uiVars /\ UNCHANGED <<scratch, backups, now, tick, platform, last, nops>>

\* shutil.move raises before the target is touched: the handler unlinks the
\* scratch file and re-raises
WjMoveFails ==
    /\ wj.pc = "move"
    /\ scratch' = NoFile
    /\ wj' = [wj EXCEPT !.pc = "raised"]
    /\ UNCHANGED uiVars /\ UNCHANGED <<disk, backups, now, tick, platform, last, nops>>

\* copy2: one more token reaches the target; after the last one copystat
\* sets the mtime and move unlinks the scratch file
WjCopy ==
    /\ wj.pc = "copy"
    /\ LET n == Len(disk[wj.path].bytes) + 1
           done == n = Len(scratch.bytes)
       IN /\ disk' = [disk EXCEPT ![wj.path] =
                         MkFile(Prefix(scratch.bytes, n),
                                IF done THEN scratch.mtime ELSE tick)]
          /\ scratch' = IF done THEN NoFile ELSE scratch
          /\ wj' = [wj EXCEPT !.pc = IF done THEN "returned" ELSE "copy",
                              !.at = IF done THEN "moved" ELSE "copy"]
          /\ tick' = IF done THEN tick + 1 ELSE tick
    /\ UNCHANGED uiVars /\ UNCHANGED <<backups, now, platform, last, nops>>

\* copy2 raises half way (disk full): the handler unlinks the scratch file
\* and re-raises
WjCopyFails ==
    /\ wj.pc = "copy"
    /\ scratch' = NoFile
    /\ tick' = tick + 1
    /\ wj' = [wj EXCEPT !.pc = "raised"]
    /\ UNCHANGED uiVars /\ UNCHANGED <<disk, backups, now, platform, last, nops>>

\* the process dies in the middle of the call: nothing more is executed
WjCrash ==
    /\ WjBusy
    /\ wj' = [wj EXCEPT !.pc = "crashed"]
    /\ UNCHANGED uiVars /\ UNCHANGED <<disk, scratch, backups, now, tick, platform, last, nops>>

\* the application is started again; the abandoned scratch file is never
\* looked at again
WjRestart ==
    /\ wj.pc = "crashed"
    /\ wj' = [wj EXCEPT !.pc = "idle"]
    /\ scratch' = NoFile
    /\ tick' = tick + 1
    /\ UNCHANGED uiVars /\ UNCHANGED <<disk, backups, now, platform, last, nops>>

\* no dialog on screen, no handler run yet, no search in progress
NoTask == [k |-> "none"]
NoDialog == [open |-> FALSE, task |-> NoTask, existing |-> FALSE,
             vars |-> <<>>, running |-> FALSE]
NoEvent == [op |-> "none", outcome |-> "none", before |-> <<>>,
            task |-> NoTask, made |-> NoTask, form |-> NoTask,
            names |-> <<>>, wrote |-> FALSE]
NoSearch == [pc |-> "idle", to |-> "none", deps |-> <<>>, i |-> 0,
             stack |-> <<>>, ret |-> FALSE, ok |-> TRUE, name |-> "None"]

\* no save_task call in progress in either thread; w is the document of
\* the last write of tasks.json that was completed
Actors == {1, 2}
NoCall == [pc |-> "idle", e |-> NoTask, text |-> <<>>, off |-> 0,
           outcome |-> "none"]
NoCalls == [a |-> [p \in Actors |-> NoCall], w |-> JsonDumpList(<<>>)]

InitViews ==
    /\ dlg = NoDialog
    /\ ev = NoEvent
    /\ hp = NoSearch
    /\ obj = NoTask
    /\ sv = NoCalls

\* the data directory after StorageManager.__init__ on a first start
InitFiles ==
    /\ disk = InitDisk
    /\ scratch = NoFile
    /\ backups = {}
    /\ now = 0
    /\ tick = 1
    /\ wj = Idle
    /\ last = NoOp
    /\ nops = 0

InitCommon ==
    /\ InitViews
    /\ tasks = <<>>
    /\ InitFiles

InitWrite == InitCommon /\ platform \in {"posix", "windows"}

NextWrite ==
    \/ \E f \in Files : \E data \in WriteInputs(f) : WjCall(f, data)
    \/ WjDump
    \/ WjDumpFails
    \/ WjRename
    \/ WjCopyOpen
    \/ WjMoveFails
    \/ WjCopy
    \/ WjCopyFails
    \/ WjCrash
    \/ WjRestart

SpecWrite == InitWrite /\ [][NextWrite]_vars

----------------------------------------------------------------------------
(* Backup rotation and corruption recovery.                                *)

\* the files of BACKUP_DIR whose name starts with backup_<stem>_
BackupsOf(bk, stem) == {b \in bk : b.stem = stem}

\* variant: the sort is not reversed, backups[0] is an oldest backup
NewestAscending(bk, stem) ==
    {b \in BackupsOf(bk, stem) :
        \A c \in BackupsOf(bk, stem) : c.mtime >= b.mtime}

\* backups[0] of sorted(..., key=st_mtime, reverse=True): a backup no other
\* backup of the file is newer than (the order of equal mtimes is that of
\* iterdir, which is arbitrary)
Newest(bk, stem) ==
    {b \in BackupsOf(bk, stem) :
        \A c \in BackupsOf(bk, stem) : c.mtime <= b.mtime}

Min(a, b) == IF a < b THEN a ELSE b

\* variant: the sort is not reversed, the oldest MAX_BACKUPS are kept
CleanupKeepOldest(bk, stem) ==
    LET mine == BackupsOf(bk, stem)
        n == Min(Cardinality(mine), MAX_BACKUPS)
    IN {(bk \ mine) \cup keep :
           keep \in {k \in SUBSET mine :
                        /\ Cardinality(k) = n
                        /\ \A x \in k : \A y \in mine \ k :
                               x.mtime <= y.mtime}}

\* _cleanup_old_backups: keep the first MAX_BACKUPS of the backups sorted by
\* mtime, newest first, and unlink the rest; every outcome the sort allows
CleanupOldBackups(bk, stem) ==
    LET mine == BackupsOf(bk, stem)
        n == Min(Cardinality(mine), MAX_BACKUPS)
    IN {(bk \ mine) \cup keep :
           keep \in {k \in SUBSET mine :
                        /\ Cardinality(k) = n
                        /\ \A x \in k : \A y \in mine \ k :
                               x.mtime >= y.mtime}}

\* variant: a backup of the same name is left as it is
CopyToBackupIfNew(bk, stem, file, sec) ==
    IF \E b \in bk : b.stem = stem /\ b.sec = sec THEN bk
    ELSE bk \cup {[stem |-> stem, sec |-> sec, bytes |-> file.bytes,
                   mtime |-> file.mtime, born |-> tick]}

\* shutil.copy2(file_path, backup_path): the bytes and the mtime of the
\* source, under the name backup_<stem>_<timestamp to the second>.json,
\* replacing a backup of the same name (born: when the copy was made)
CopyToBackup(bk, stem, file, sec) ==
    {b \in bk : ~(b.stem = stem /\ b.sec = sec)}
        \cup {[stem |-> stem, sec |-> sec, bytes |-> file.bytes,
               mtime |-> file.mtime, born |-> tick]}

\* _create_backup: every backup directory it can leave
CreateBackup(bk, stem, file, sec) ==
    IF ~file.exists THEN {bk}
    ELSE CleanupOldBackups(CopyToBackup(bk, stem, file, sec), stem)

DataNone == [k |-> "none"]
DataList(v) == [k |-> "list", v |-> v]
DataObj(v) == [k |-> "obj", v |-> v]

\* json.load of a complete document
JsonLoad(b) ==
    IF IsListText(b) THEN DataList(JsonLoadList(b)) ELSE DataObj(JsonLoadObj(b))

\* the value _restore_from_backup returns when there is no backup
DefaultValue(f) ==
    IF f = SETTINGS_FILE THEN DataObj(DEFAULT_SETTINGS) ELSE DataList(<<>>)

\* _restore_from_backup: copy2 of the newest backup over the primary file,
\* then open and json.load of the primary file, which raise on a copy that
\* is not UTF-8 text or not JSON
RestoreFromBackup(f, file, bk) ==
    IF BackupsOf(bk, f) = {}
    THEN {[outcome |-> "ok", data |-> DefaultValue(f), file |-> file]}
    ELSE {[outcome |-> IF ~Decodable(b.bytes) THEN "UnicodeDecodeError"
                       ELSE IF ~Parsable(b.bytes) THEN "JSONDecodeError"
                       ELSE "ok",
           data |-> IF Parsable(b.bytes) THEN JsonLoad(b.bytes) ELSE DataNone,
           file |-> MkFile(b.bytes, b.mtime)] : b \in Newest(bk, f)}

\* _read_json: what it returns or raises and what it leaves in the file.
\* Only json.JSONDecodeError leads to the restore; the UnicodeDecodeError of
\* a file that is not UTF-8 text is not caught
ReadJson(f, file, bk) ==
    IF ~file.exists
    THEN {[outcome |-> "ok", data |-> DataNone, file |-> file]}
    ELSE IF ~Decodable(file.bytes)
    THEN {[outcome |-> "UnicodeDecodeError", data |-> DataNone,
           file |-> file]}
    ELSE IF Parsable(file.bytes)
    THEN {[outcome |-> "ok", data |-> JsonLoad(file.bytes), file |-> file]}
    ELSE RestoreFromBackup(f, file, bk)

\* get_all_projects / get_all_tasks on what _read_json gave: iterating None
\* raises TypeError
GetAll(f, r) ==
    IF r.outcome # "ok" THEN [outcome |-> r.outcome, items |-> <<>>]
    ELSE IF r.data.k # "list" THEN [outcome |-> "TypeError", items |-> <<>>]
    ELSE [outcome |-> "ok",
          items |-> [i \in 1..Len(r.data.v) |-> FromDict(ClassOf(f), r.data.v[i])]]

----------------------------------------------------------------------------
(* Collection store.                                                       *)

\* variant: the entity of the same id is removed and the new one appended
UpsertMoveToEnd(items, e) ==
    LET other(x) == x.id # e.id IN Append(SelectSeq(items, other), e)

\* variant: the entity is appended whether or not its id is stored
UpsertAppend(items, e) == Append(items, e)

\* variant: the updated flag is never set, so a replaced entity is appended
\* as well
UpsertInsert(items, e) ==
    IF \E i \in 1..Len(items) : items[i].id = e.id
    THEN LET i == CHOOSE j \in 1..Len(items) :
                      /\ items[j].id = e.id
                      /\ \A k \in 1..(j - 1) : items[k].id # e.id
         IN Append([items EXCEPT ![i] = e], e)
    ELSE Append(items, e)

\* the loop of save_project / save_task: replace the first entity of the
\* same id and stop, else append
UpsertList(items, e) ==
    IF \E i \in 1..Len(items) : items[i].id = e.id
    THEN LET i == CHOOSE j \in 1..Len(items) :
                      /\ items[j].id = e.id
                      /\ \A k \in 1..(j - 1) : items[k].id # e.id
         IN [items EXCEPT ![i] = e]
    ELSE Append(items, e)

\* variant: the filter keeps the entities of the id and drops the others
DeleteListInverted(items, id) ==
    LET same(x) == x.id = id IN SelectSeq(items, same)

\* [p for p in projects if p.id != project_id]
RECURSIVE DeleteList(_, _)
DeleteList(items, id) ==
    IF items = <<>> THEN <<>>
    ELSE IF Head(items).id # id
    THEN <<Head(items)>> \o DeleteList(Tail(items), id)
    ELSE DeleteList(Tail(items), id)

\* [p.to_dict() for p in projects]
DictsOf(items) == [i \in 1..Len(items) |-> ToDict(items[i])]

\* the loop of get_project / get_task
FindFirst(items, id) ==
    IF \E i \in 1..Len(items) : items[i].id = id
    THEN LET i == CHOOSE j \in 1..Len(items) :
                      /\ items[j].id = id
                      /\ \A k \in 1..(j - 1) : items[k].id # id
         IN [k |-> "obj", v |-> items[i]]
    ELSE DataNone

\* _write_json run to its end: the target is the new document
WriteJson(d, f, bytes, t) == [d EXCEPT ![f] = MkFile(bytes, t)]

Outcome(op, f, arg, res, value) ==
    [op |-> op, file |-> f, arg |-> arg, outcome |-> res, value |-> value,
     before |-> disk[f], bks |-> BackupsOf(backups, f), at |-> now,
     repeat |-> /\ last.op = op /\ last.file = f /\ last.arg = arg
                /\ last.outcome = "ok"]

\* get_all_projects / get_all_tasks
ListOp(f) ==
    /\ wj.pc = "idle"
    /\ \E r \in ReadJson(f, disk[f], backups) :
         LET g == GetAll(f, r)
         IN /\ disk' = [disk EXCEPT ![f] = r.file]
            /\ last' = Outcome("list", f, [none |-> TRUE], g.outcome,
                               DataList(g.items))
    /\ nops' = nops + 1
    /\ UNCHANGED uiVars /\ UNCHANGED <<scratch, backups, now, tick, platform, wj>>

\* get_project / get_task
GetOp(f, id) ==
    /\ wj.pc = "idle"
    /\ \E r \in ReadJson(f, disk[f], backups) :
         LET g == GetAll(f, r)
         IN /\ disk' = [disk EXCEPT ![f] = r.file]
            /\ last' = Outcome("get", f, [id |-> id], g.outcome,
                               FindFirst(g.items, id))
    /\ nops' = nops + 1
    /\ UNCHANGED uiVars /\ UNCHANGED <<scratch, backups, now, tick, platform, wj>>

\* save_project / save_task
SaveOp(f, e) ==
    /\ wj.pc = "idle"
    /\ \E bk \in CreateBackup(backups, f, disk[f], now) :
       \E r \in ReadJson(f, disk[f], bk) :
         LET g == GetAll(f, r)
             text == JsonDumpList(DictsOf(UpsertList(g.items, e)))
         IN /\ backups' = bk
            /\ disk' = IF g.outcome = "ok"
                       THEN WriteJson(disk, f, text, tick)
                       ELSE [disk EXCEPT ![f] = r.file]
            /\ last' = Outcome("save", f, e, g.outcome, DataNone)
    /\ tick' = tick + 1
    /\ nops' = nops + 1
    /\ UNCHANGED uiVars /\ UNCHANGED <<scratch, now, platform, wj>>

\* variant: deleting a project also rewrites tasks.json without the tasks
\* of the project
DeleteOpCascade(f, id) ==
    /\ wj.pc = "idle"
    /\ \E bk \in CreateBackup(backups, f, disk[f], now) :
       \E r \in ReadJson(f, disk[f], bk) :
         LET g == GetAll(f, r)
             text == JsonDumpList(DictsOf(DeleteList(g.items, id)))
             other(d) == d.project_id # id
             rest == JsonDumpList(SelectSeq(JsonLoadList(disk["tasks"].bytes),
                                            other))
         IN /\ backups' = bk
            /\ disk' = IF g.outcome = "ok"
                       THEN [WriteJson(disk, f, text, tick) EXCEPT
                                !["tasks"] = IF f = "projects"
                                             THEN MkFile(rest, tick) ELSE @]
                       ELSE [disk EXCEPT ![f] = r.file]
            /\ last' = Outcome("delete", f, [id |-> id], g.outcome, DataNone)
    /\ tick' = tick + 1
    /\ nops' = nops + 1
    /\ UNCHANGED uiVars /\ UNCHANGED <<scratch, now, platform, wj>>

\* delete_project / delete_task
DeleteOp(f, id) ==
    /\ wj.pc = "idle"
    /\ \E bk \in CreateBackup(backups, f, disk[f], now) :
       \E r \in ReadJson(f, disk[f], bk) :
         LET g == GetAll(f, r)
             text == JsonDumpList(DictsOf(DeleteList(g.items, id)))
         IN /\ backups' = bk
            /\ disk' = IF g.outcome = "ok"
                       THEN WriteJson(disk, f, text, tick)
                       ELSE [disk EXCEPT ![f] = r.file]
            /\ last' = Outcome("delete", f, [id |-> id], g.outcome, DataNone)
    /\ tick' = tick + 1
    /\ nops' = nops + 1
    /\ UNCHANGED uiVars /\ UNCHANGED <<scratch, now, platform, wj>>

\* get_settings
GetSettingsOp ==
    /\ wj.pc = "idle"
    /\ \E r \in ReadJson(SETTINGS_FILE, disk[SETTINGS_FILE], backups) :
         /\ disk' = [disk EXCEPT ![SETTINGS_FILE] = r.file]
         /\ last' = Outcome("get_settings", SETTINGS_FILE, [none |-> TRUE],
                            IF r.outcome = "ok" /\ r.data.k # "obj"
                            THEN "AttributeError" ELSE r.outcome,
                            IF r.outcome = "ok" /\ r.data.k = "obj"
                            THEN DataObj(SettingsFromDict(r.data.v))
                            ELSE DataNone)
    /\ nops' = nops + 1
    /\ UNCHANGED uiVars /\ UNCHANGED <<scratch, backups, now, tick, platform, wj>>

\* save_settings: _write_json only
SaveSettingsOp(s) ==
    /\ wj.pc = "idle"
    /\ disk' = WriteJson(disk, SETTINGS_FILE,
                         JsonDumpObj(SettingsToDict(s)), tick)
    /\ last' = Outcome("save_settings", SETTINGS_FILE, s, "ok", DataNone)
    /\ tick' = tick + 1
    /\ nops' = nops + 1
    /\ UNCHANGED uiVars /\ UNCHANGED <<scratch, backups, now, platform, wj>>

\* the environment damages a parsable primary file: it is overwritten with
\* junk (its mtime moves) or rots in place (its mtime stays)
Corrupt(f, junk, touch) ==
    /\ wj.pc = "idle"
    /\ disk[f].exists
    /\ Parsable(disk[f].bytes)
    /\ disk' = [disk EXCEPT ![f] =
                   MkFile(<<junk>>, IF touch THEN tick ELSE disk[f].mtime)]
    /\ last' = [last EXCEPT !.op = "corrupt", !.file = f, !.repeat = FALSE]
    /\ tick' = tick + 1
    /\ UNCHANGED uiVars /\ UNCHANGED <<scratch, backups, now, platform, wj, nops>>

\* the environment removes a primary file while the application runs (the
\* user or a cleaner deletes it; _ensure_data_files runs at start-up only)
Remove(f) ==
    /\ wj.pc = "idle"
    /\ disk[f].exists
    /\ Parsable(disk[f].bytes)
    /\ disk' = [disk EXCEPT ![f] = NoFile]
    /\ last' = [last EXCEPT !.op = "remove", !.file = f, !.repeat = FALSE]
    /\ UNCHANGED uiVars
    /\ UNCHANGED <<scratch, backups, now, tick, platform, wj, nops>>

\* the wall clock reaches the next second (backup names tell seconds apart
\* and nothing more, so one tick between two operations is enough)
Tick ==
    /\ now = last.at
    /\ now' = now + 1
    /\ UNCHANGED uiVars /\ UNCHANGED <<disk, scratch, backups, tick, platform, wj, last, nops>>

\* one run works on one data file: no operation on a file reads or writes
\* another file or another file's backups
OnFile(f) == last.op = "none" \/ last.file = f

InitStore == InitCommon /\ platform = "posix"

NextStore ==
    \/ \E f \in Collections : nops < MaxOps /\ OnFile(f) /\ ListOp(f)
    \/ \E f \in Collections : \E id \in Ids :
          nops < MaxOps /\ OnFile(f) /\ GetOp(f, id)
    \/ \E f \in Collections : \E e \in Entities(f) :
          nops < MaxOps /\ OnFile(f) /\ SaveOp(f, e)
    \/ \E f \in Collections : \E id \in Ids :
          nops < MaxOps /\ OnFile(f) /\ DeleteOp(f, id)
    \/ nops < MaxOps /\ OnFile(SETTINGS_FILE) /\ GetSettingsOp
    \/ \E th \in Themes :
          nops < MaxOps /\ OnFile(SETTINGS_FILE)
          /\ SaveSettingsOp(SettingsFromDict([theme |-> th]))
    \/ \E f \in Files : \E junk \in {TokJunk, TokBinary} :
          \E touch \in BOOLEAN : OnFile(f) /\ Corrupt(f, junk, touch)
    \/ \E f \in Files : OnFile(f) /\ Remove(f)
    \/ Tick

SpecStore == InitStore /\ [][NextStore]_vars

----------------------------------------------------------------------------
(* Backup rotation under successive saves of one file.                     *)

RotationInputs == {NewEntity("Task", "a", n) : n \in Names}

NextRotation ==
    \/ \E e \in RotationInputs : nops < MaxSaves /\ SaveOp("tasks", e)
    \/ Tick

SpecRotation == InitStore /\ [][NextRotation]_vars

----------------------------------------------------------------------------
(* C1: if the process crashes after the scratch file is fully written but  *)
(* before the move, the target holds its previous complete content; after  *)
(* the move it holds the new complete content; the target never holds a    *)
(* mixture or a prefix of either.                                          *)
C1_TargetOldOrNew ==
    /\ (wj.pc = "crashed" /\ wj.at = "move") => disk[wj.path] = wj.old
    /\ wj.at = "moved" => disk[wj.path].bytes = wj.data
    /\ wj.pc # "idle" =>
          \/ disk[wj.path] = wj.old
          \/ disk[wj.path].exists /\ disk[wj.path].bytes = wj.data

(* C2: when _write_json raises, the target holds what it held before the   *)
(* call (or is still absent) and the scratch file is gone.                 *)
C2_FailureLeavesTarget ==
    wj.pc = "raised" => disk[wj.path] = wj.old /\ ~scratch.exists

----------------------------------------------------------------------------
(* Properties of the collection store.                                     *)

ReadOps == {"list", "get_settings"}
MutatingOps == {"save", "delete"}

\* the primary file existed and was unparsable when the operation started
WasCorrupt == last.before.exists /\ ~Parsable(last.before.bytes)
WasParsable == last.before.exists /\ Parsable(last.before.bytes)

\* b is a most recently modified backup among those the operation found
MostRecent(b) == b \in last.bks /\ \A c \in last.bks : c.mtime <= b.mtime

\* what a read returns for a document
ValueOf(f, bytes) ==
    IF f = SETTINGS_FILE
    THEN DataObj(SettingsFromDict(JsonLoadObj(bytes)))
    ELSE DataList([i \in 1..(Len(bytes) - 2) |->
                      FromDict(ClassOf(f), JsonLoadList(bytes)[i])])

ReturnsBackup ==
    /\ last.outcome = "ok"
    /\ \E b \in last.bks :
          /\ MostRecent(b)
          /\ Parsable(b.bytes)
          /\ last.value = ValueOf(last.file, b.bytes)
          /\ disk[last.file].bytes = b.bytes

(* C3: a read that finds the primary file unparsable while some parsable   *)
(* backup of it is present returns the parsed content of the most recently *)
(* modified backup and leaves that backup's bytes in the primary file.     *)
C3_AnyParsableBackup ==
    (/\ last.op \in ReadOps
     /\ WasCorrupt
     /\ \E b \in last.bks : Parsable(b.bytes))
    => ReturnsBackup

(* C4: once a primary collection file is unparsable, list, get, save and   *)
(* delete on it return normally; none raises a parse error.                *)
C4_NoParseError ==
    (last.op \in {"list", "get", "save", "delete"} /\ WasCorrupt)
    => last.outcome = "ok"

(* C5: a read that finds the primary file unparsable, with no backup or    *)
(* with an unparsable most recently modified backup, returns the default   *)
(* value and does not raise.                                               *)
C5_DefaultOnBadBackup ==
    (/\ last.op \in ReadOps
     /\ WasCorrupt
     /\ \A b \in last.bks : MostRecent(b) => ~Parsable(b.bytes))
    => /\ last.outcome = "ok"
       /\ last.value = IF last.file = SETTINGS_FILE
                       THEN DataObj(SettingsFromDict(DEFAULT_SETTINGS))
                       ELSE DataList(<<>>)

C7_SevenNewestRemain ==
    (last.op = "save" /\ nops > MAX_BACKUPS)
    => /\ Cardinality(BackupsOf(backups, last.file)) = MAX_BACKUPS
       /\ {b.born : b \in BackupsOf(backups, last.file)}
             = (tick - MAX_BACKUPS)..(tick - 1)

(* C8: save is an upsert by id: an entity of the same id is replaced at    *)
(* its position, otherwise the entity is appended; every other record      *)
(* keeps its content and its place.                                        *)
C8_Upsert ==
    (last.op = "save" /\ last.outcome = "ok" /\ WasParsable)
    => LET old == JsonLoadList(last.before.bytes)
           new == JsonLoadList(disk[last.file].bytes)
           d == ToDict(last.arg)
       IN /\ IsListText(disk[last.file].bytes)
          /\ IF \E i \in 1..Len(old) : old[i].id = d.id
             THEN /\ Len(new) = Len(old)
                  /\ \A i \in 1..Len(old) :
                        new[i] = IF old[i].id = d.id THEN d ELSE old[i]
             ELSE new = Append(old, d)

C8_Witness ==
    /\ last.op = "save"
    /\ last.outcome = "ok"
    /\ WasParsable
    /\ LET old == JsonLoadList(last.before.bytes)
       IN /\ Len(old) = 2
          /\ old[1].id = last.arg.id
          /\ old[1] # ToDict(last.arg)

(* C9: delete removes every entity of the id and leaves the other records  *)
(* in content and order; with no such entity the content is unchanged and  *)
(* nothing is raised.                                                      *)
C9_Delete ==
    (last.op = "delete" /\ WasParsable)
    => LET old == JsonLoadList(last.before.bytes)
           new == JsonLoadList(disk[last.file].bytes)
           keep(d) == d.id # last.arg.id
       IN /\ last.outcome = "ok"
          /\ IsListText(disk[last.file].bytes)
          /\ new = SelectSeq(old, keep)
          /\ (\A i \in 1..Len(old) : keep(old[i]))
                => disk[last.file].bytes = last.before.bytes

C9_Witness ==
    /\ last.op = "delete"
    /\ WasParsable
    /\ LET old == JsonLoadList(last.before.bytes)
       IN /\ Len(old) = 2
          /\ old[1].id = last.arg.id
          /\ Len(JsonLoadList(disk[last.file].bytes)) = 1

(* C10: saving the same entity twice in succession leaves one record of    *)
(* that id and the file content of the first save.                         *)
C10_SaveTwice ==
    (last.op = "save" /\ last.repeat /\ last.outcome = "ok")
    => LET new == JsonLoadList(disk[last.file].bytes)
       IN /\ disk[last.file].bytes = last.before.bytes
          /\ Cardinality({i \in 1..Len(new) : new[i].id = last.arg.id}) = 1

C10_Witness ==
    /\ last.op = "save"
    /\ last.repeat
    /\ last.outcome = "ok"
    /\ Len(JsonLoadList(disk[last.file].bytes)) = 2

(* C11: an operation that finds its primary file missing does not raise:   *)
(* a read returns the default value (the empty list, the default           *)
(* settings), a save or delete proceeds from the empty collection.         *)
C11_MissingFileDefault ==
    (/\ last.op \in {"list", "get_settings", "save", "delete"}
     /\ ~last.before.exists)
    => /\ last.outcome = "ok"
       /\ last.op = "list" => last.value = DataList(<<>>)
       /\ last.op = "get_settings"
             => last.value = DataObj(SettingsFromDict(DEFAULT_SETTINGS))
       /\ last.op = "save"
             => disk[last.file].bytes = JsonDumpList(<<ToDict(last.arg)>>)
       /\ last.op = "delete" => disk[last.file].bytes = JsonDumpList(<<>>)

(* C24: a save_settings call on an existing settings.json leaves a backup  *)
(* of the file as it was just before the call, as a collection save does.  *)
C24_SettingsSaveSnapshots ==
    (last.op = "save_settings" /\ last.before.exists)
    => \E b \in backups :
          /\ b.stem = SETTINGS_FILE
          /\ b.sec = last.at
          /\ b.bytes = last.before.bytes

----------------------------------------------------------------------------
(* The Task object (src/src/models/task.py).                               *)

None == "None"
Stamp == "ts"       \* datetime.now().isoformat()

\* valid_statuses and valid_priorities of Task.validate
Statuses == {"todo", "in_progress", "blocked", "completed"}
Priorities == {"low", "medium", "high"}

\* Task.__init__: the fields the dependency and validation rules read
Task(title, status, priority, reason, deps, timer, task_id, completed_at) ==
    [id |-> task_id, title |-> title, status |-> status,
     priority |-> priority, blocked_reason |-> reason,
     dependencies |-> deps, completed_at |-> completed_at,
     timer_running |-> timer]

\* Task.to_dict
TaskToDict(t) ==
    [id |-> t.id, title |-> t.title, status |-> t.status,
     priority |-> t.priority, completed_at |-> t.completed_at,
     blocked_reason |-> t.blocked_reason, dependencies |-> t.dependencies,
     timer_running |-> t.timer_running]

\* Task.from_dict
TaskFromDict(d) ==
    Task(d.title, d.status, d.priority, d.blocked_reason, d.dependencies,
         d.timer_running, d.id, d.completed_at)

\* Task.update(**kwargs): setattr of every keyword, then completed_at is set
\* when the status keyword is "completed" and cleared when kwargs.get("status")
\* is anything else, None (no status keyword) included
Update(t, kw) ==
    LET set == [f \in DOMAIN t |-> IF f \in DOMAIN kw THEN kw[f] ELSE t[f]]
        st == IF "status" \in DOMAIN kw THEN kw.status ELSE None
    IN IF st = "completed" /\ set.completed_at = None
       THEN [set EXCEPT !.completed_at = Stamp]
       ELSE IF st # "completed"
       THEN [set EXCEPT !.completed_at = None]
       ELSE set

\* Task.start_timer
StartTimer(t) ==
    IF ~t.timer_running THEN [t EXCEPT !.timer_running = TRUE] ELSE t

\* Task.stop_timer
StopTimer(t) ==
    IF t.timer_running THEN [t EXCEPT !.timer_running = FALSE] ELSE t

\* Task.validate: "ok" or the field its message names
Validate(t) ==
    IF t.title = "" THEN "title"
    ELSE IF t.status \notin Statuses THEN "status"
    ELSE IF t.priority \notin Priorities THEN "priority"
    ELSE IF t.status = "blocked" /\ t.blocked_reason \in {None, ""}
    THEN "blocked_reason"
    ELSE "ok"

TaskObj(t) == [k |-> "obj", v |-> t]

\* the keyword sets of the update calls
UpdateArgs ==
    {[status |-> s] : s \in Statuses}
    \cup {[title |-> "Build"], [priority |-> "high"],
          [blocked_reason |-> "waiting"]}
    \cup {[status |-> "blocked", blocked_reason |-> "waiting"]}

\* Task(title=..., status=..., priority=..., blocked_reason=...)
TaskNew(title, status, priority, reason) ==
    /\ obj' = TaskObj(Task(title, status, priority, reason, <<>>, FALSE,
                           "a", None))
    /\ UNCHANGED <<tasks, dlg, ev, hp, nops>>
    /\ UNCHANGED storageVars

TaskUpdate(kw) ==
    /\ obj.k = "obj"
    /\ obj' = TaskObj(Update(obj.v, kw))
    /\ UNCHANGED <<tasks, dlg, ev, hp, nops>>
    /\ UNCHANGED storageVars

TaskStartTimer ==
    /\ obj.k = "obj"
    /\ obj' = TaskObj(StartTimer(obj.v))
    /\ UNCHANGED <<tasks, dlg, ev, hp, nops>>
    /\ UNCHANGED storageVars

TaskStopTimer ==
    /\ obj.k = "obj"
    /\ obj' = TaskObj(StopTimer(obj.v))
    /\ UNCHANGED <<tasks, dlg, ev, hp, nops>>
    /\ UNCHANGED storageVars

\* the record of the object is stored
TaskStore ==
    /\ obj.k = "obj"
    /\ tasks' = <<TaskToDict(obj.v)>>
    /\ UNCHANGED <<obj, dlg, ev, hp, nops>>
    /\ UNCHANGED storageVars

\* Task.from_dict of the stored record
TaskLoad ==
    /\ tasks # <<>>
    /\ obj' = TaskObj(TaskFromDict(tasks[1]))
    /\ UNCHANGED <<tasks, dlg, ev, hp, nops>>
    /\ UNCHANGED storageVars

NextTask ==
    \/ \E title \in {"", "Design"} : \E st \in Statuses :
       \E pr \in Priorities : \E reason \in {None, "waiting"} :
          TaskNew(title, st, pr, reason)
    \/ \E kw \in UpdateArgs : TaskUpdate(kw)
    \/ TaskStartTimer
    \/ TaskStopTimer
    \/ TaskStore
    \/ TaskLoad

SpecTask == InitStore /\ [][NextTask]_vars

(* C13: for every Task built by the constructor, by from_dict of a stored  *)
(* record or by any sequence of update calls, completed_at is set exactly  *)
(* when the status is completed.                                           *)
C13_StampIffCompleted ==
    obj.k = "obj" => (obj.v.completed_at # None <=> obj.v.status = "completed")

----------------------------------------------------------------------------
(* The dependency checks of the task editor (src/src/ui/views/tasks.py).   *)

\* get_all_tasks on a parsable tasks.json
GetAllTasks(ts) == [i \in 1..Len(ts) |-> TaskFromDict(ts[i])]

\* [t.to_dict() for t in tasks]
TaskDicts(items) == [i \in 1..Len(items) |-> TaskToDict(items[i])]

\* save_task on a parsable tasks.json: the records it leaves in the file
SaveTask(ts, t) == TaskDicts(UpsertList(GetAllTasks(ts), t))

\* delete_task on a parsable tasks.json
DeleteTask(ts, id) == TaskDicts(DeleteList(GetAllTasks(ts), id))

\* all_tasks = {t.id: t for t in get_all_tasks()} followed by all_tasks.get(id):
\* the last task of the id, or None
Lookup(items, id) ==
    IF \E i \in 1..Len(items) : items[i].id = id
    THEN LET i == CHOOSE j \in 1..Len(items) :
                      /\ items[j].id = id
                      /\ \A k \in (j + 1)..Len(items) : items[k].id # id
         IN TaskObj(items[i])
    ELSE NoTask

\* variant: a node already visited is searched again
SeenNever(from_id, visited) == FALSE

\* variant: every node counts as visited
SeenAlways(from_id, visited) == TRUE

\* if from_id in visited
Seen(from_id, visited) == from_id \in visited

\* variant: only the proposed dependency itself is compared with the task
has_path_direct(from_id, to_id, visited, items) == from_id = to_id

\* has_path of _check_circular_dependency: depth-first search along the
\* dependencies of the stored tasks, each call with its own copy of visited
RECURSIVE has_path(_, _, _, _)
has_path(from_id, to_id, visited, items) ==
    IF from_id = to_id THEN TRUE
    ELSE IF Seen(from_id, visited) THEN FALSE
    ELSE LET task == Lookup(items, from_id)
         IN IF task.k = "none" THEN FALSE
            ELSE \E j \in 1..Len(task.v.dependencies) :
                    has_path(task.v.dependencies[j], to_id,
                             visited \cup {from_id}, items)

\* _check_circular_dependency(new_deps): (True, None) or (False, message
\* naming the first proposed dependency that reaches self.task)
check_circular_dependency(self_task, new_deps, items) ==
    IF self_task.k = "none" THEN [ok |-> TRUE, name |-> None]
    ELSE LET bad == {i \in 1..Len(new_deps) :
                        has_path(new_deps[i], self_task.v.id, {}, items)}
         IN IF bad = {} THEN [ok |-> TRUE, name |-> None]
            ELSE LET i == CHOOSE j \in bad : \A k \in bad : j <= k
                     dep_task == Lookup(items, new_deps[i])
                 IN [ok |-> FALSE,
                     name |-> IF dep_task.k = "none" THEN "Unknown"
                              ELSE dep_task.v.title]

\* the loop of _check_incomplete_dependencies: the titles of the
\* dependencies that resolve to a task whose status is not completed
RECURSIVE IncompleteTitles(_, _)
IncompleteTitles(deps, items) ==
    IF deps = <<>> THEN <<>>
    ELSE LET dep_task == Lookup(items, Head(deps))
         IN (IF dep_task.k = "obj" /\ dep_task.v.status # "completed"
             THEN <<dep_task.v.title>> ELSE <<>>)
            \o IncompleteTitles(Tail(deps), items)

\* the same loop where a dependency that resolves to no task counts too
RECURSIVE IncompleteTitlesStrict(_, _)
IncompleteTitlesStrict(deps, items) ==
    IF deps = <<>> THEN <<>>
    ELSE LET dep_task == Lookup(items, Head(deps))
         IN (IF dep_task.k = "none" THEN <<"Unknown">>
             ELSE IF dep_task.v.status # "completed"
             THEN <<dep_task.v.title>> ELSE <<>>)
            \o IncompleteTitlesStrict(Tail(deps), items)

\* variant: a dependency that resolves to no task counts as incomplete
check_incomplete_strict(self_task, items) ==
    IF self_task.k = "none" THEN [blocked |-> FALSE, names |-> <<>>]
    ELSE LET incomplete == IncompleteTitlesStrict(self_task.v.dependencies,
                                                  items)
         IN [blocked |-> Len(incomplete) > 0, names |-> incomplete]

\* _check_incomplete_dependencies: over the dependencies of self.task, the
\* object in memory; (False, []) when there is no task or no dependency
check_incomplete_dependencies(self_task, items) ==
    IF self_task.k = "none" THEN [blocked |-> FALSE, names |-> <<>>]
    ELSE LET incomplete == IncompleteTitles(self_task.v.dependencies, items)
         IN [blocked |-> Len(incomplete) > 0, names |-> incomplete]

----------------------------------------------------------------------------
(* The task editor, the daily planner and the JSON import.                 *)

MaxEdits == 3       \* handler runs that change tasks.json or the dialog's task

\* uuid4 values: an id that no stored task has or refers to
IdSeq == <<"a", "b">>
ImportId == "m"

IdsOf(ts) == {ts[i].id : i \in 1..Len(ts)}
RefsOf(ts) ==
    UNION {{ts[i].dependencies[j] : j \in 1..Len(ts[i].dependencies)} :
              i \in 1..Len(ts)}
UsedIds == IdsOf(tasks) \cup RefsOf(tasks)
              \cup (IF dlg.task.k = "obj" THEN {dlg.task.v.id} ELSE {})
FreshId ==
    IdSeq[CHOOSE i \in 1..Len(IdSeq) :
             /\ IdSeq[i] \notin UsedIds
             /\ \A k \in 1..(i - 1) : IdSeq[k] \in UsedIds]

\* the checked boxes of dependency_vars, in the order of the dictionary
Ticked(boxes) ==
    {LET in(x) == x \in S IN SelectSeq(boxes, in) :
        S \in SUBSET {boxes[i] : i \in 1..Len(boxes)}}

\* the entries of the status menu the runs choose among
FormStatuses == {"todo", "blocked", "completed"}

\* what the user has entered when Save Task is pressed
Forms(boxes) ==
    {[title |-> "", status |-> "todo", priority |-> "medium",
      reason |-> None, deps |-> <<>>]}
    \cup {[title |-> "Build", status |-> st, priority |-> "medium",
           reason |-> None, deps |-> d] :
             st \in FormStatuses, d \in Ticked(boxes)}
    \cup {[title |-> "Build", status |-> "blocked", priority |-> "medium",
           reason |-> "waiting", deps |-> d] : d \in Ticked(boxes)}

\* the records of an import file: a valid one, one without a title, one
\* with a status and a priority outside the enums
ImportRecord(title, status, priority) ==
    [id |-> ImportId, title |-> title, status |-> status,
     priority |-> priority, completed_at |-> None, blocked_reason |-> None,
     dependencies |-> <<>>, timer_running |-> FALSE]

ImportRecords ==
    {ImportRecord("Plan", "todo", "medium"),
     ImportRecord("", "todo", "medium"),
     ImportRecord("Plan", "archived", "urgent")}

Event(op, outcome, made, form, names, wrote) ==
    [op |-> op, outcome |-> outcome, before |-> tasks, task |-> dlg.task,
     made |-> made, form |-> form, names |-> names, wrote |-> wrote]

\* TasksView._on_create_task: TaskFormDialog(task=None); dependency_vars
\* holds every stored task
OpenNew ==
    /\ ~dlg.open
    /\ \E i \in 1..Len(IdSeq) : IdSeq[i] \notin UsedIds
    /\ dlg' = [open |-> TRUE, task |-> NoTask, existing |-> FALSE,
               vars |-> [i \in 1..Len(tasks) |-> tasks[i].id],
               running |-> FALSE]
    /\ ev' = Event("open", "none", NoTask, NoTask, <<>>, FALSE)
    /\ UNCHANGED <<tasks, hp, obj, nops>>
    /\ UNCHANGED storageVars

\* TasksView._on_task_click: TaskFormDialog(task) on a task of the last
\* refresh; dependency_vars holds every other stored task
OpenEdit(i) ==
    /\ ~dlg.open
    /\ LET other(id) == id # tasks[i].id
       IN dlg' = [open |-> TRUE, task |-> TaskObj(TaskFromDict(tasks[i])),
                  existing |-> TRUE,
                  vars |-> SelectSeq([k \in 1..Len(tasks) |-> tasks[k].id],
                                     other),
                  running |-> FALSE]
    /\ ev' = Event("open", "none", NoTask, NoTask, <<>>, FALSE)
    /\ UNCHANGED <<tasks, hp, obj, nops>>
    /\ UNCHANGED storageVars

\* the keywords of self.task.update(...) in _on_save
SaveArgs(form) ==
    [title |-> form.title, status |-> form.status,
     priority |-> form.priority, blocked_reason |-> form.reason,
     dependencies |-> form.deps]

\* variant: self.task.update(...) runs before the checks of _on_save
KeptTaskUpdated(self_task, t) ==
    IF self_task.k = "obj" THEN TaskObj(t) ELSE self_task

\* self.task after an early return of _on_save: the returns of the cycle
\* check and of the completion gate come before self.task.update(...) and
\* before Task(...), so self.task is the object it was
KeptTask(self_task, t) == self_task

\* TaskFormDialog._on_save
OnSave(form) ==
    /\ dlg.open
    /\ LET items == GetAllTasks(tasks)
           cyc == check_circular_dependency(dlg.task, form.deps, items)
           gate == check_incomplete_dependencies(dlg.task, items)
           t == IF dlg.task.k = "obj"
                THEN Update(dlg.task.v, SaveArgs(form))
                ELSE Task(form.title, form.status, form.priority,
                          form.reason, form.deps, FALSE, FreshId, None)
       IN IF form.title = ""
          THEN /\ ev' = Event("save", "notitle", NoTask, TaskObj(form), <<>>,
                              FALSE)
               /\ UNCHANGED <<tasks, dlg>>
          ELSE IF ~cyc.ok
          THEN /\ ev' = Event("save", "cycle", NoTask, TaskObj(form),
                              <<cyc.name>>, FALSE)
               /\ dlg' = [dlg EXCEPT !.task = KeptTask(dlg.task, t)]
               /\ UNCHANGED tasks
          ELSE IF form.status = "completed" /\ gate.blocked
          THEN /\ ev' = Event("save", "blocked", NoTask, TaskObj(form),
                              gate.names, FALSE)
               /\ dlg' = [dlg EXCEPT !.task = KeptTask(dlg.task, t)]
               /\ UNCHANGED tasks
          ELSE IF Validate(t) # "ok"
          THEN /\ ev' = Event("save", "invalid", TaskObj(t), TaskObj(form),
                              <<Validate(t)>>, FALSE)
               /\ dlg' = [dlg EXCEPT !.task = TaskObj(t)]
               /\ UNCHANGED tasks
          ELSE /\ ev' = Event("save", "saved", TaskObj(t), TaskObj(form),
                              <<>>, TRUE)
               /\ tasks' = SaveTask(tasks, t)
               /\ dlg' = NoDialog
    /\ nops' = IF ev'.outcome \in {"saved", "invalid"} THEN nops + 1 ELSE nops
    /\ nops' <= MaxEdits
    /\ UNCHANGED <<hp, obj>>
    /\ UNCHANGED storageVars

\* TimerWidget._on_start and TaskFormDialog._on_timer_start
OnTimerStart ==
    /\ dlg.open
    /\ ~dlg.running
    /\ IF dlg.task.k = "obj"
       THEN LET t == StartTimer(dlg.task.v)
            IN /\ dlg' = [dlg EXCEPT !.running = TRUE, !.task = TaskObj(t)]
               /\ tasks' = SaveTask(tasks, t)
               /\ ev' = Event("timer_start", "saved", TaskObj(t), NoTask,
                              <<>>, TRUE)
       ELSE /\ dlg' = [dlg EXCEPT !.running = TRUE]
            /\ ev' = Event("timer_start", "none", NoTask, NoTask, <<>>, FALSE)
            /\ UNCHANGED tasks
    /\ nops' = nops + 1
    /\ UNCHANGED <<hp, obj>>
    /\ UNCHANGED storageVars

\* TimerWidget._on_stop and TaskFormDialog._on_timer_stop
OnTimerStop ==
    /\ dlg.open
    /\ dlg.running
    /\ IF dlg.task.k = "obj"
       THEN LET t == StopTimer(dlg.task.v)
            IN /\ dlg' = [dlg EXCEPT !.running = FALSE, !.task = TaskObj(t)]
               /\ tasks' = SaveTask(tasks, t)
               /\ ev' = Event("timer_stop", "saved", TaskObj(t), NoTask,
                              <<>>, TRUE)
       ELSE /\ dlg' = [dlg EXCEPT !.running = FALSE]
            /\ ev' = Event("timer_stop", "none", NoTask, NoTask, <<>>, FALSE)
            /\ UNCHANGED tasks
    /\ nops' = nops + 1
    /\ UNCHANGED <<hp, obj>>
    /\ UNCHANGED storageVars

\* the Cancel button: destroy, then TasksView.refresh
OnCancel ==
    /\ dlg.open
    /\ dlg' = NoDialog
    /\ ev' = Event("cancel", "none", NoTask, NoTask, <<>>, FALSE)
    /\ UNCHANGED <<tasks, hp, obj, nops>>
    /\ UNCHANGED storageVars

\* TaskFormDialog._on_delete (the button exists when the dialog was opened
\* on a task)
OnDelete ==
    /\ dlg.open
    /\ dlg.existing
    /\ tasks' = DeleteTask(tasks, dlg.task.v.id)
    /\ dlg' = NoDialog
    /\ ev' = Event("delete", "saved", NoTask, NoTask, <<>>, TRUE)
    /\ nops' = nops + 1
    /\ UNCHANGED <<hp, obj>>
    /\ UNCHANGED storageVars

\* DailyPlannerView._toggle_task_completion on a task of the plan
ToggleTaskCompletion(i) ==
    /\ ~dlg.open
    /\ LET task == TaskFromDict(tasks[i])
           new_status == IF task.status # "completed" THEN "completed"
                         ELSE "todo"
           t == Update(task, [status |-> new_status])
       IN /\ tasks' = SaveTask(tasks, t)
          /\ ev' = [Event("toggle", "saved", TaskObj(t),
                          TaskObj([status |-> new_status]), <<>>, TRUE)
                       EXCEPT !.task = TaskObj(task)]
    /\ nops' = nops + 1
    /\ UNCHANGED <<dlg, hp, obj>>
    /\ UNCHANGED storageVars

\* import_tasks_json on a file of one record: from_dict, then save_task
ImportTask(d) ==
    /\ ~dlg.open
    /\ LET t == TaskFromDict(d)
       IN /\ tasks' = SaveTask(tasks, t)
          /\ ev' = Event("import", "saved", TaskObj(t), NoTask, <<>>, TRUE)
    /\ nops' = nops + 1
    /\ UNCHANGED <<dlg, hp, obj>>
    /\ UNCHANGED storageVars

NextEditor ==
    \/ OpenNew
    \/ \E i \in 1..Len(tasks) : OpenEdit(i)
    \/ \E form \in Forms(dlg.vars) : OnSave(form)
    \/ nops < MaxEdits /\ OnTimerStart
    \/ nops < MaxEdits /\ OnTimerStop
    \/ OnCancel
    \/ nops < MaxEdits /\ OnDelete
    \/ \E i \in 1..Len(tasks) : nops < MaxEdits /\ ToggleTaskCompletion(i)
    \/ \E d \in ImportRecords : nops < MaxEdits /\ ImportTask(d)

SpecEditor == InitStore /\ [][NextEditor]_vars

\* every stored task passes validate()
AllValid == \A i \in 1..Len(tasks) : Validate(TaskFromDict(tasks[i])) = "ok"

----------------------------------------------------------------------------
(* Properties of the task editor.                                          *)

\* the ids the stored tasks of the ids in S depend on
Succ(ts, S) ==
    UNION {{ts[i].dependencies[j] : j \in 1..Len(ts[i].dependencies)} :
              i \in {k \in 1..Len(ts) : ts[k].id \in S}}

\* the ids reachable from S in zero or more dependency edges
RECURSIVE Closure(_, _)
Closure(ts, S) ==
    LET n == S \cup Succ(ts, S) IN IF n = S THEN S ELSE Closure(ts, n)

CanReach(ts, from_id, to_id) == to_id \in Closure(ts, {from_id})

Acyclic(ts) ==
    \A i \in 1..Len(ts) : ts[i].id \notin Closure(ts, Succ(ts, {ts[i].id}))

\* the stored record of the id, or NoTask
Stored(ts, id) == Lookup(ts, id)

\* the dependency id resolves to a stored task that is not completed
Unmet(ts, id) == Stored(ts, id).k = "obj" /\ Stored(ts, id).v.status # "completed"

(* C12: no handler writes a task as completed that was not completed       *)
(* before while a task listed in the written dependencies is stored with   *)
(* another status than completed.                                          *)
C12_NoCompletionOverUnmet ==
    (/\ ev.wrote
     /\ ev.made.k = "obj"
     /\ ev.made.v.status = "completed"
     /\ Stored(ev.before, ev.made.v.id).k = "obj"
           => Stored(ev.before, ev.made.v.id).v.status # "completed")
    => \A j \in 1..Len(ev.made.v.dependencies) :
          ~Unmet(ev.before, ev.made.v.dependencies[j])

C20_OnlyValidStored ==
    /\ AllValid
    /\ ev.outcome = "invalid" => (tasks = ev.before /\ ~ev.wrote)

\* the last handler called Task.update with a status keyword
UpdatedWithStatus ==
    \/ ev.op = "toggle"
    \/ ev.op = "save" /\ ev.task.k = "obj" /\ ev.outcome \in {"saved", "invalid"}

(* C19: update(status=completed) on a task that is not completed sets      *)
(* completed_at; update(status=s) with another s clears it; and when every *)
(* dependency of a stored task is completed, the editor's save of that     *)
(* task as completed succeeds and is persisted.                            *)
C19_CompletionTransition ==
    /\ UpdatedWithStatus =>
          /\ (ev.form.v.status = "completed" /\ ev.task.v.status # "completed")
                => ev.made.v.completed_at # None
          /\ ev.form.v.status # "completed" => ev.made.v.completed_at = None
    /\ (/\ ev.op = "save"
        /\ ev.task.k = "obj"
        /\ Stored(ev.before, ev.task.v.id).k = "obj"
        /\ ev.form.v.title # ""
        /\ ev.form.v.status = "completed"
        /\ ev.form.v.deps = Stored(ev.before, ev.task.v.id).v.dependencies
        /\ \A j \in 1..Len(ev.form.v.deps) : ~Unmet(ev.before, ev.form.v.deps[j]))
       => /\ ev.outcome = "saved"
          /\ Stored(tasks, ev.task.v.id).k = "obj"
          /\ Stored(tasks, ev.task.v.id).v.status = "completed"

(* C21: a save that the cycle check or the completion gate rejects changes *)
(* nothing: no storage call is made, the stored tasks are what they were,  *)
(* and the task in the dialog keeps every field value it had; the dialog   *)
(* stays open.                                                             *)
C21_RejectionChangesNothing ==
    (ev.op = "save" /\ ev.outcome \in {"cycle", "blocked"})
    => /\ ~ev.wrote
       /\ tasks = ev.before
       /\ dlg.open
       /\ dlg.task = ev.task

C21_Witness ==
    /\ ev.op = "save"
    /\ ev.outcome = "blocked"
    /\ ev.task.k = "obj"
    /\ ev.task.v.status # "completed"
    /\ ev.form.v.deps # ev.task.v.dependencies
    /\ dlg.task = ev.task
    /\ tasks = ev.before

(* C26: after the editor has saved a task with status completed, every     *)
(* dependency the save stored for it that resolves to a task resolves to a *)
(* completed task, dependencies ticked in the same edit and tasks created  *)
(* as completed included.                                                  *)
C26_GateOnPersistedDeps ==
    (ev.op = "save" /\ ev.outcome = "saved" /\ ev.form.v.status = "completed")
    => LET saved == Stored(tasks, ev.made.v.id)
       IN /\ saved.k = "obj"
          /\ saved.v.status = "completed"
          /\ saved.v.dependencies = ev.form.v.deps
          /\ \A j \in 1..Len(saved.v.dependencies) :
                ~Unmet(tasks, saved.v.dependencies[j])

----------------------------------------------------------------------------
(* _check_circular_dependency, call by call: the for loop over new_deps    *)
(* and the frames of the recursive has_path.                               *)

MaxDepth == 5       \* frames of has_path the interpreter's stack is given

\* stored task sets: three tasks, each with up to two dependencies among the
\* stored ids and an id ("x") that resolves to no task
GraphIds == <<"a", "b", "c">>
GraphTitles == [a |-> "Design", b |-> "Build", c |-> "Test"]
DepLists ==
    {<<>>, <<"a">>, <<"b">>, <<"c">>, <<"x">>, <<"a", "b">>, <<"a", "c">>,
     <<"b", "c">>, <<"a", "x">>, <<"b", "x">>, <<"c", "x">>}
GraphStores ==
    {[i \in 1..3 |->
         TaskToDict(Task(GraphTitles[GraphIds[i]], "todo", "medium", None,
                         d[i], FALSE, GraphIds[i], None))] :
        d \in [1..3 -> DepLists]}

\* proposed dependency lists
Proposals ==
    {<<>>, <<"a">>, <<"b">>, <<"c">>, <<"x">>}
    \cup {<<p, q>> : p \in {"a", "b", "c"}, q \in {"a", "b", "c"}}

\* variant: the loop returns after the first dependency
deps_of_first(items, from_id) ==
    LET d == Lookup(items, from_id).v.dependencies
    IN IF d = <<>> THEN d ELSE <<d[1]>>

\* for dep_id in task.dependencies
deps_of(items, from_id) == Lookup(items, from_id).v.dependencies

Frame(from_id, visited) == [from |-> from_id, visited |-> visited, j |-> 0]
Top == hp.stack[Len(hp.stack)]
Pop == SubSeq(hp.stack, 1, Len(hp.stack) - 1)
SetTop(f) == [hp.stack EXCEPT ![Len(hp.stack)] = f]
Return(v) == [hp EXCEPT !.pc = "ret", !.ret = v, !.stack = Pop]

\* _check_circular_dependency(new_deps) is called: all_tasks is built
HpCall ==
    /\ hp.pc = "idle"
    /\ dlg.task.k = "obj"
    /\ hp' = [hp EXCEPT !.pc = "run", !.i = 1, !.to = dlg.task.v.id]
    /\ UNCHANGED <<tasks, dlg, ev, obj, nops>>
    /\ UNCHANGED storageVars

\* for dep_id in new_deps: has_path(dep_id, self.task.id, set()), or the
\* return (True, None) after the last one
HpNextDep ==
    /\ hp.pc = "run"
    /\ hp.stack = <<>>
    /\ hp' = IF hp.i > Len(hp.deps)
             THEN [hp EXCEPT !.pc = "done", !.ok = TRUE, !.name = None]
             ELSE [hp EXCEPT !.stack = <<Frame(hp.deps[hp.i], {})>>]
    /\ UNCHANGED <<tasks, dlg, ev, obj, nops>>
    /\ UNCHANGED storageVars

\* the first lines of has_path: the three early returns and visited.add
HpEnter ==
    /\ hp.pc = "run"
    /\ hp.stack # <<>>
    /\ Top.j = 0
    /\ hp' = IF Top.from = hp.to THEN Return(TRUE)
             ELSE IF Seen(Top.from, Top.visited) THEN Return(FALSE)
             ELSE IF Lookup(GetAllTasks(tasks), Top.from).k = "none"
             THEN Return(FALSE)
             ELSE [hp EXCEPT !.stack =
                      SetTop([Top EXCEPT !.visited = @ \cup {Top.from},
                                         !.j = 1])]
    /\ UNCHANGED <<tasks, dlg, ev, obj, nops>>
    /\ UNCHANGED storageVars

\* the loop of has_path: the recursive call on the next dependency with a
\* copy of visited, or return False after the last one; a call beyond the
\* depth of the interpreter's stack raises RecursionError
HpLoop ==
    /\ hp.pc = "run"
    /\ hp.stack # <<>>
    /\ Top.j >= 1
    /\ LET deps == deps_of(GetAllTasks(tasks), Top.from)
       IN hp' = IF Top.j > Len(deps) THEN Return(FALSE)
                ELSE IF Len(hp.stack) >= MaxDepth
                THEN [hp EXCEPT !.pc = "overflow"]
                ELSE [hp EXCEPT !.stack =
                         Append(hp.stack, Frame(deps[Top.j], Top.visited))]
    /\ UNCHANGED <<tasks, dlg, ev, obj, nops>>
    /\ UNCHANGED storageVars

\* a call of has_path has returned hp.ret: to the loop of the calling frame
\* (return True, or go on with the next dependency) or to the for loop of
\* _check_circular_dependency (return False with the message, or go on)
HpReturn ==
    /\ hp.pc = "ret"
    /\ hp' = IF hp.stack # <<>>
             THEN IF hp.ret THEN Return(TRUE)
                  ELSE [hp EXCEPT !.pc = "run",
                                  !.stack = SetTop([Top EXCEPT !.j = @ + 1])]
             ELSE IF hp.ret
             THEN LET dep_task == Lookup(GetAllTasks(tasks), hp.deps[hp.i])
                  IN [hp EXCEPT !.pc = "done", !.ok = FALSE,
                                !.name = IF dep_task.k = "none" THEN "Unknown"
                                         ELSE dep_task.v.title]
             ELSE [hp EXCEPT !.pc = "run", !.i = @ + 1]
    /\ UNCHANGED <<tasks, dlg, ev, obj, nops>>
    /\ UNCHANGED storageVars

\* the editor is open on a stored task and the user has ticked new_deps
InitCycle ==
    /\ InitFiles
    /\ platform = "posix"
    /\ ev = NoEvent
    /\ obj = NoTask
    /\ tasks \in GraphStores
    /\ \E i \in 1..3 :
          dlg = [open |-> TRUE, task |-> TaskObj(TaskFromDict(tasks[i])),
                 existing |-> TRUE, vars |-> <<>>, running |-> FALSE]
    /\ \E d \in Proposals : hp = [NoSearch EXCEPT !.deps = d]
    /\ sv = NoCalls

NextCycle ==
    \/ HpCall
    \/ HpNextDep
    \/ HpEnter
    \/ HpLoop
    \/ HpReturn

\* the interpreter runs the call to its end
SpecCycle == InitCycle /\ [][NextCycle]_vars /\ WF_vars(NextCycle)

\* the frame-by-frame run returns what the recursive definition gives
SearchAgrees ==
    hp.pc = "done" =>
        LET r == check_circular_dependency(dlg.task, hp.deps,
                                           GetAllTasks(tasks))
        IN hp.ok = r.ok /\ hp.name = r.name

----------------------------------------------------------------------------
(* Properties of the cycle check.                                          *)

\* the positions of the proposed dependencies that reach the task along
\* stored dependency edges, in zero or more steps
Reaching == {i \in 1..Len(hp.deps) : CanReach(tasks, hp.deps[i], hp.to)}

\* a depends on b, b depends on c, and there is no other dependency
ChainABC ==
    /\ tasks[1].dependencies = <<"b">>
    /\ tasks[2].dependencies = <<"c">>
    /\ tasks[3].dependencies = <<>>

(* C15: the cycle check rejects exactly when some proposed dependency      *)
(* reaches the task along stored dependencies in zero or more steps, and   *)
(* the message names the first such dependency of the list.                *)
C15_RejectsIffReaches ==
    hp.pc = "done" =>
        /\ hp.ok <=> Reaching = {}
        /\ ~hp.ok =>
              LET i == CHOOSE j \in Reaching : \A k \in Reaching : j <= k
              IN hp.name = Stored(tasks, hp.deps[i]).v.title

C15_Witness ==
    /\ hp.pc = "done"
    /\ tasks[1].dependencies = <<"b">>
    /\ hp.to = "b"
    /\ hp.deps = <<"c", "a">>
    /\ ~hp.ok
    /\ hp.name = "Design"

(* C16: with a depending on b and b on c, proposing c as a dependency of a *)
(* is rejected.                                                            *)
C16_ChainRejected ==
    (hp.pc = "done" /\ ChainABC /\ hp.to = "a" /\ hp.deps = <<"c">>)
    => ~hp.ok

(* C16 as amended: with a depending on b and b on c, proposing a as a      *)
(* dependency of c is rejected, and proposing c as a dependency of a is    *)
(* accepted.                                                               *)
C16_ChainAmended ==
    (hp.pc = "done" /\ ChainABC) =>
        /\ (hp.to = "c" /\ hp.deps = <<"a">>) => (~hp.ok /\ hp.name = "Design")
        /\ (hp.to = "a" /\ hp.deps = <<"c">>) => hp.ok

C16_Witness ==
    /\ hp.pc = "done"
    /\ ChainABC
    /\ hp.to = "c"
    /\ hp.deps = <<"a">>
    /\ ~hp.ok

(* C17: the search of the cycle check comes to an end on every stored task *)
(* set, whatever cycles, self-loops, shared dependencies or unresolvable   *)
(* ids it holds.                                                           *)
C17_SearchTerminates == <>(hp.pc = "done")

C17_Witness ==
    /\ hp.pc = "done"
    /\ tasks[1].dependencies = <<"a", "x">>
    /\ tasks[2].dependencies = <<"a", "c">>
    /\ tasks[3].dependencies = <<"b">>
    /\ hp.to = "a"
    /\ hp.deps = <<"c", "b">>

----------------------------------------------------------------------------
(* The completion gate on its own.                                         *)

\* the dependencies of the task in the dialog: stored tasks and an id that
\* resolves to no task
GateDeps ==
    {<<>>, <<"b">>, <<"c">>, <<"x">>, <<"b", "c">>, <<"c", "b">>,
     <<"x", "b">>, <<"c", "x">>, <<"x", "c", "b">>, <<"b", "x", "c">>}

GateStores ==
    {<<TaskToDict(Task("Design", "todo", "medium", None, d, FALSE, "a", None)),
       TaskToDict(Task("Build", sb, "medium", None, <<>>, FALSE, "b", None)),
       TaskToDict(Task("Test", sc, "medium", None, <<>>, FALSE, "c", None))>> :
        d \in GateDeps, sb \in Statuses, sc \in Statuses}

\* _on_save with status Completed calls _check_incomplete_dependencies
GateCall ==
    /\ ev.op = "none"
    /\ LET r == check_incomplete_dependencies(dlg.task, GetAllTasks(tasks))
       IN ev' = Event("gate", IF r.blocked THEN "blocked" ELSE "pass",
                      NoTask, NoTask, r.names, FALSE)
    /\ UNCHANGED <<tasks, dlg, hp, obj, nops>>
    /\ UNCHANGED storageVars

InitGate ==
    /\ InitFiles
    /\ platform = "posix"
    /\ ev = NoEvent
    /\ obj = NoTask
    /\ hp = NoSearch
    /\ sv = NoCalls
    /\ tasks \in GateStores
    /\ dlg = [open |-> TRUE, task |-> TaskObj(TaskFromDict(tasks[1])),
              existing |-> TRUE, vars |-> <<"b", "c">>, running |-> FALSE]

NextGate == GateCall

SpecGate == InitGate /\ [][NextGate]_vars

\* the positions of the dependencies of the task in the dialog that resolve
\* to a stored task that is not completed
UnmetAt ==
    {j \in 1..Len(dlg.task.v.dependencies) :
        Unmet(tasks, dlg.task.v.dependencies[j])}

\* the k-th smallest element of a set of positions
Kth(S, k) == CHOOSE j \in S : Cardinality({m \in S : m < j}) = k - 1

(* C18: the completion gate fails exactly when a dependency resolves to a  *)
(* stored task that is not completed; ids that resolve to no task never    *)
(* block; the list returned on failure is the titles of the resolvable     *)
(* incomplete dependencies in dependency order.                            *)
C18_GateExact ==
    ev.op = "gate" =>
        /\ ev.outcome = "blocked" <=> UnmetAt # {}
        /\ Len(ev.names) = Cardinality(UnmetAt)
        /\ \A k \in 1..Len(ev.names) :
              ev.names[k] =
                 Stored(tasks, dlg.task.v.dependencies[Kth(UnmetAt, k)]).v.title

C18_Witness ==
    /\ ev.op = "gate"
    /\ ev.outcome = "blocked"
    /\ dlg.task.v.dependencies = <<"x", "c", "b">>
    /\ ev.names = <<"Test", "Build">>

----------------------------------------------------------------------------
(* A second thread reads a primary file while the first one writes it.     *)

\* _restore_from_backup is copying a backup over the primary file
Restoring == wj.pc \in {"rs_open", "rs_copy"}

\* _read_json in the first thread finds the primary file unparsable and
\* _restore_from_backup picks backups[0]
RsCall(f) ==
    /\ ~WjBusy
    /\ ~Restoring
    /\ wj.pc # "crashed"
    /\ nops < MaxWrites
    /\ disk[f].exists
    /\ Decodable(disk[f].bytes)
    /\ ~Parsable(disk[f].bytes)
    /\ \E b \in Newest(backups, f) :
          wj' = [pc |-> "rs_open", path |-> f, data |-> b.bytes,
                 old |-> disk[f], at |-> "restore", src |-> b]
    /\ nops' = nops + 1
    /\ UNCHANGED uiVars
    /\ UNCHANGED <<disk, scratch, backups, now, tick, platform, last>>

\* shutil.copy2(backups[0], file_path): open(dst, 'wb') truncates the primary
RsOpen ==
    /\ wj.pc = "rs_open"
    /\ disk' = [disk EXCEPT ![wj.path] = MkFile(<<>>, tick)]
    /\ wj' = [wj EXCEPT !.pc = "rs_copy"]
    /\ UNCHANGED uiVars
    /\ UNCHANGED <<scratch, backups, now, tick, platform, last, nops>>

\* copy2: one more token of the backup reaches the primary file (a token the
\* other thread's copy of the same backup already put there is written over
\* with itself); after the last one copystat sets the mtime of the backup
RsCopy ==
    /\ wj.pc = "rs_copy"
    /\ LET cur == disk[wj.path].bytes
           n == Len(cur) + 1
           done == n >= Len(wj.data)
       IN /\ disk' = [disk EXCEPT ![wj.path] =
                         MkFile(Prefix(wj.data, Min(n, Len(wj.data))),
                                IF done THEN wj.src.mtime ELSE tick)]
          /\ wj' = [wj EXCEPT !.pc = IF done THEN "returned" ELSE "rs_copy",
                              !.at = IF done THEN "restored" ELSE "restore"]
          /\ tick' = IF done THEN tick + 1 ELSE tick
    /\ UNCHANGED uiVars
    /\ UNCHANGED <<scratch, backups, now, platform, last, nops>>

\* NotificationManager._check_due_soon_tasks in the second thread, or
\* get_settings there: _read_json of the file the first thread is writing.
\* last.before is the file as this read found it, last.arg the write in
\* progress. A read that fails to parse
\* restores from the newest backup; that copy is followed when it is the
\* copy the first thread is making, and when there is no backup
Observe(f) ==
    /\ WjBusy \/ Restoring
    /\ f = wj.path
    /\ \E r \in ReadJson(f, disk[f], backups) :
          /\ \/ r.file = disk[f]
             \/ Restoring /\ r.file = MkFile(wj.data, wj.src.mtime)
          /\ disk' = [disk EXCEPT ![f] = r.file]
          /\ last' = Outcome("observe", f,
                             [old |-> wj.old, new |-> wj.data, at |-> wj.at],
                             IF f # SETTINGS_FILE THEN GetAll(f, r).outcome
                             ELSE r.outcome,
                             r.data)
    /\ UNCHANGED uiVars
    /\ UNCHANGED <<scratch, backups, now, tick, platform, wj, nops>>

InitReader == InitCommon /\ platform \in {"posix", "windows"}

NextReader ==
    \/ \E f \in Files : \E data \in WriteInputs(f) : WjCall(f, data)
    \/ WjDump
    \/ WjDumpFails
    \/ WjRename
    \/ WjCopyOpen
    \/ WjMoveFails
    \/ WjCopy
    \/ WjCopyFails
    \/ \E f \in Collections : \E e \in Entities(f) :
          nops < MaxWrites /\ OnFile(f) /\ SaveOp(f, e)
    \/ \E f \in Collections : OnFile(f) /\ Corrupt(f, TokJunk, TRUE)
    \/ \E f \in Collections : RsCall(f)
    \/ RsOpen
    \/ RsCopy
    \/ \E f \in Files : Observe(f)

SpecReader == InitReader /\ [][NextReader]_vars

(* C22: a read that another thread makes while a primary file is being     *)
(* written (by _write_json or by the restore from a backup) finds the file *)
(* with its complete previous content or with its complete new content.    *)
C22_ReaderSeesOldOrNew ==
    last.op = "observe"
    => \/ last.before = last.arg.old
       \/ last.before.exists /\ last.before.bytes = last.arg.new

----------------------------------------------------------------------------
(* Two threads call save_task, each with its own in-memory copy.           *)

TASKS_FILE == "tasks"

\* a position of the file no write has reached yet
TokNul == [t |-> "nul"]

\* f.write at the offset of the writer's own file handle
WriteAt(bytes, k, tok) ==
    IF k <= Len(bytes) THEN [bytes EXCEPT ![k] = tok]
    ELSE bytes \o [i \in 1..(k - 1 - Len(bytes)) |-> TokNul] \o <<tok>>

SvSet(p, c) == [sv EXCEPT !.a[p] = c]

\* save_task(task) is called in thread p
SvCall(p, e) ==
    /\ sv.a[p].pc = "idle"
    /\ nops < MaxOps
    /\ sv' = SvSet(p, [NoCall EXCEPT !.pc = "backup", !.e = e])
    /\ nops' = nops + 1
    /\ UNCHANGED <<disk, scratch, backups, now, tick, platform, wj, last>>
    /\ UNCHANGED <<tasks, dlg, ev, hp, obj>>

\* self._create_backup(TASKS_FILE)
SvBackup(p) ==
    /\ sv.a[p].pc = "backup"
    /\ backups' \in CreateBackup(backups, TASKS_FILE, disk[TASKS_FILE], now)
    /\ sv' = SvSet(p, [sv.a[p] EXCEPT !.pc = "read"])
    /\ UNCHANGED <<disk, scratch, now, tick, platform, wj, last, nops>>
    /\ UNCHANGED <<tasks, dlg, ev, hp, obj>>

\* tasks = self.get_all_tasks(), the loop that replaces or appends, and
\* json.dump of the result into the thread's own scratch file
SvRead(p) ==
    /\ sv.a[p].pc = "read"
    /\ \E r \in ReadJson(TASKS_FILE, disk[TASKS_FILE], backups) :
         LET g == GetAll(TASKS_FILE, r)
             text == JsonDumpList(DictsOf(UpsertList(g.items, sv.a[p].e)))
         IN /\ disk' = [disk EXCEPT ![TASKS_FILE] = r.file]
            /\ sv' = SvSet(p, IF g.outcome = "ok"
                              THEN [sv.a[p] EXCEPT !.pc = "move",
                                                   !.text = text]
                              ELSE [sv.a[p] EXCEPT !.pc = "raised",
                                                   !.outcome = g.outcome])
    /\ UNCHANGED <<scratch, backups, now, tick, platform, wj, last, nops>>
    /\ UNCHANGED <<tasks, dlg, ev, hp, obj>>

\* shutil.move(temp_path, file_path): os.rename replaces the target, or
\* raises and copy2 opens the target for writing, which truncates it
SvMove(p) ==
    /\ sv.a[p].pc = "move"
    /\ IF RenameReplaces(platform, disk[TASKS_FILE])
       THEN /\ disk' = WriteJson(disk, TASKS_FILE, sv.a[p].text, tick)
            /\ sv' = [SvSet(p, [sv.a[p] EXCEPT !.pc = "returned",
                                                !.outcome = "ok"])
                         EXCEPT !.w = sv.a[p].text]
            /\ tick' = tick + 1
       ELSE /\ disk' = WriteJson(disk, TASKS_FILE, <<>>, tick)
            /\ sv' = SvSet(p, [sv.a[p] EXCEPT !.pc = "copy"])
            /\ UNCHANGED tick
    /\ UNCHANGED <<scratch, backups, now, platform, wj, last, nops>>
    /\ UNCHANGED <<tasks, dlg, ev, hp, obj>>

\* copy2: the next token of the scratch file is written at the offset of
\* this thread's handle; after the last one save_task returns
SvCopy(p) ==
    /\ sv.a[p].pc = "copy"
    /\ LET c == sv.a[p]
           k == c.off + 1
           done == k = Len(c.text)
       IN /\ disk' = WriteJson(disk, TASKS_FILE,
                               WriteAt(disk[TASKS_FILE].bytes, k, c.text[k]),
                               tick)
          /\ sv' = IF done
                   THEN [SvSet(p, [c EXCEPT !.pc = "returned", !.off = k,
                                            !.outcome = "ok"])
                            EXCEPT !.w = c.text]
                   ELSE SvSet(p, [c EXCEPT !.off = k])
          /\ tick' = IF done THEN tick + 1 ELSE tick
    /\ UNCHANGED <<scratch, backups, now, platform, wj, last, nops>>
    /\ UNCHANGED <<tasks, dlg, ev, hp, obj>>

\* the caller goes on after save_task returned or raised
SvDone(p) ==
    /\ sv.a[p].pc \in {"returned", "raised"}
    /\ nops < MaxOps
    /\ sv' = SvSet(p, [sv.a[p] EXCEPT !.pc = "idle"])
    /\ UNCHANGED <<disk, scratch, backups, now, tick, platform, wj, last, nops>>
    /\ UNCHANGED <<tasks, dlg, ev, hp, obj>>

InitRace == InitCommon /\ platform \in {"posix", "windows"}

NextRace ==
    \/ \E p \in Actors : \E e \in Entities(TASKS_FILE) : SvCall(p, e)
    \/ \E p \in Actors : SvBackup(p)
    \/ \E p \in Actors : SvRead(p)
    \/ \E p \in Actors : SvMove(p)
    \/ \E p \in Actors : SvCopy(p)
    \/ \E p \in Actors : SvDone(p)

SpecRace == InitRace /\ [][NextRace]_vars

\* the ids of the records of the primary file
StoredIds ==
    {JsonLoadList(disk[TASKS_FILE].bytes)[i].id :
        i \in 1..Len(JsonLoadList(disk[TASKS_FILE].bytes))}

\* both threads have returned from a save and one saved record is not in
\* the file
LostUpdate ==
    /\ \A p \in Actors : sv.a[p].pc = "returned"
    /\ IsListText(disk[TASKS_FILE].bytes)
    /\ \E p \in Actors : sv.a[p].e.id \notin StoredIds

(* C23: two threads that save from their own copies can lose one update    *)
(* (the file is what the thread that wrote last made of its own copy),     *)
(* while every write of the file is atomic: the file is at every moment    *)
(* the complete document of the last save that returned (sv.w), or the    *)
(* initial one.                                                            *)
C23_LastWriteWinsAtomically == disk[TASKS_FILE].bytes = sv.w

----------------------------------------------------------------------------
(* Projects and the tasks that refer to them.                              *)

PROJECTS_FILE == "projects"

MaxCalls == 2       \* storage calls in one run on projects and their tasks

\* Task.to_dict of a task of a project: project_id is a project's id or None
TaskIn(id, name, project_id) == [id |-> id, name |-> name, project_id |-> project_id]

\* the documents of tasks.json: one or two tasks, each of project a, of
\* project b or of no project
TaskDocs ==
    {JsonDumpList(<<TaskIn("t1", "n1", p)>>) : p \in Ids \cup {"None"}}
    \cup {JsonDumpList(<<TaskIn("t1", "n1", p), TaskIn("t2", "n2", q)>>) :
             p \in Ids \cup {"None"}, q \in Ids \cup {"None"}}

\* the documents of projects.json
ProjectDocs ==
    {JsonDumpList(<<>>),
     JsonDumpList(<<ToDict(NewEntity("Project", "a", "n1"))>>),
     JsonDumpList(<<ToDict(NewEntity("Project", "a", "n1")),
                    ToDict(NewEntity("Project", "b", "n2"))>>)}

\* get_tasks_by_project: [t for t in tasks if t.project_id == project_id]
GetTasksByProjectOp(project_id) ==
    /\ wj.pc = "idle"
    /\ \E r \in ReadJson(TASKS_FILE, disk[TASKS_FILE], backups) :
         LET of(d) == d.project_id = project_id
         IN /\ disk' = [disk EXCEPT ![TASKS_FILE] = r.file]
            /\ last' = Outcome("by_project", TASKS_FILE, [id |-> project_id],
                               IF r.data.k = "list" THEN r.outcome
                               ELSE "TypeError",
                               IF r.data.k = "list"
                               THEN DataList(SelectSeq(r.data.v, of))
                               ELSE DataNone)
    /\ nops' = nops + 1
    /\ UNCHANGED uiVars /\ UNCHANGED <<scratch, backups, now, tick, platform, wj>>

\* the data directory of a later start: projects and tasks of earlier runs
InitProjects ==
    /\ InitViews
    /\ tasks = <<>>
    /\ platform = "posix"
    /\ \E pd \in ProjectDocs : \E td \in TaskDocs :
          disk = [InitDisk EXCEPT ![PROJECTS_FILE] = MkFile(pd, 0),
                                  ![TASKS_FILE] = MkFile(td, 0)]
    /\ scratch = NoFile
    /\ backups = {}
    /\ now = 0
    /\ tick = 1
    /\ wj = Idle
    /\ last = NoOp
    /\ nops = 0

NextProjects ==
    \/ \E e \in Entities(PROJECTS_FILE) :
          nops < MaxCalls /\ SaveOp(PROJECTS_FILE, e)
    \/ \E id \in Ids : nops < MaxCalls /\ DeleteOp(PROJECTS_FILE, id)
    \/ \E id \in Ids : nops < MaxCalls /\ GetOp(PROJECTS_FILE, id)
    \/ \E id \in Ids : nops < MaxCalls /\ GetTasksByProjectOp(id)
    \/ \E junk \in {TokJunk, TokBinary} : Corrupt(PROJECTS_FILE, junk, TRUE)
    \/ Remove(PROJECTS_FILE)
    \/ Tick

SpecProjects == InitProjects /\ [][NextProjects]_vars

\* the step is a call of delete_project
DeleteProjectStep ==
    /\ nops' = nops + 1
    /\ last'.op = "delete"
    /\ last'.file = PROJECTS_FILE

\* the dicts of tasks.json that refer to the project
TasksOf(d, project_id) ==
    LET of(t) == t.project_id = project_id
    IN SelectSeq(JsonLoadList(d[TASKS_FILE].bytes), of)

(* C25: delete_project leaves tasks.json and its backups as they are (the  *)
(* tasks of the deleted project are stored as before, project_id           *)
(* included), and on a parsable projects.json it leaves no project of the  *)
(* id in the file.                                                         *)
C25_DeleteProjectOrphans ==
    [][DeleteProjectStep =>
          /\ disk'[TASKS_FILE] = disk[TASKS_FILE]
          /\ BackupsOf(backups', TASKS_FILE) = BackupsOf(backups, TASKS_FILE)
          /\ TasksOf(disk', last'.arg.id) = TasksOf(disk, last'.arg.id)
          /\ (disk[PROJECTS_FILE].exists /\ Parsable(disk[PROJECTS_FILE].bytes))
                => /\ last'.outcome = "ok"
                   /\ IsListText(disk'[PROJECTS_FILE].bytes)
                   /\ \A i \in 1..Len(JsonLoadList(disk'[PROJECTS_FILE].bytes)) :
                         JsonLoadList(disk'[PROJECTS_FILE].bytes)[i].id
                            # last'.arg.id]_vars

C25_Witness ==
    /\ last.op = "delete"
    /\ last.file = PROJECTS_FILE
    /\ last.outcome = "ok"
    /\ WasParsable
    /\ \E i \in 1..Len(JsonLoadList(last.before.bytes)) :
          JsonLoadList(last.before.bytes)[i].id = last.arg.id
    /\ \A i \in 1..Len(JsonLoadList(disk[PROJECTS_FILE].bytes)) :
          JsonLoadList(disk[PROJECTS_FILE].bytes)[i].id # last.arg.id
    /\ Len(TasksOf(disk, last.arg.id)) = 2

----------------------------------------------------------------------------
(* Snapshots of two logical files in one backup directory.                 *)

MaxSnaps == 9       \* saves and deletes in one run on two files
MaxOther == 1       \* backups of projects.json made in such a run

NextPrune ==
    \/ nops < MaxSnaps /\ SaveOp(TASKS_FILE, NewEntity("Task", "a", "n1"))
    \/ /\ nops < MaxSnaps
       /\ Cardinality(BackupsOf(backups, PROJECTS_FILE)) < MaxOther
       /\ DeleteOp(PROJECTS_FILE, "a")
    \/ Tick

SpecPrune == InitStore /\ [][NextPrune]_vars

\* the step is a save or delete that took a snapshot of its file
SnapshotStep ==
    /\ nops' = nops + 1
    /\ last'.op \in MutatingOps
    /\ disk[last'.file].exists

\* the backup directory after the copy of the snapshot and before the
\* pruning: the new backup replaces a backup of its own name
AfterCopy(f) ==
    {b \in backups : ~(b.stem = f /\ b.sec = now)}
       \cup {[stem |-> f, sec |-> now, bytes |-> disk[f].bytes,
              mtime |-> disk[f].mtime, born |-> tick]}

(* C27: after every snapshot at most MAX_BACKUPS backups of the file        *)
(* exist, every backup the snapshot pruned was modified no later than      *)
(* every backup of the file it kept, and the backups of the other files    *)
(* are the same as before.                                                 *)
C27_PruneOldestPerFile ==
    [][SnapshotStep =>
          LET f == last'.file
          IN /\ Cardinality(BackupsOf(backups', f)) <= MAX_BACKUPS
             /\ backups' \subseteq AfterCopy(f)
             /\ \A x \in AfterCopy(f) \ backups' :
                   /\ x.stem = f
                   /\ \A y \in BackupsOf(backups', f) : x.mtime <= y.mtime
             /\ \A g \in Files \ {f} :
                   BackupsOf(backups', g) = BackupsOf(backups, g)]_vars

C27_Witness ==
    /\ last.op = "save"
    /\ last.file = TASKS_FILE
    /\ Cardinality(last.bks) = MAX_BACKUPS
    /\ Cardinality(BackupsOf(backups, TASKS_FILE)) = MAX_BACKUPS
    /\ \A b \in last.bks : b.sec # last.at
    /\ BackupsOf(backups, PROJECTS_FILE) # {}

----------------------------------------------------------------------------
(* The timer of the task editor (src/src/ui/components/timer_widget.py).   *)

MaxPresses == 5     \* presses of Start, Stop and Reset in one editor session
MaxTicks == 3       \* seconds that pass while the editor is open

\* actual_hours: None, or a number of hours, held in 3600ths of an hour
NoHours == [k |-> "none"]
Hours(n) == [k |-> "num", v |-> n]

\* if self.actual_hours: neither None nor 0
Truthy(h) == h.k = "num" /\ h.v # 0

\* the fields of a Task the timer reads and writes
TimedTask(actual_hours, timer_running, timer_elapsed_seconds) ==
    [id |-> "a", title |-> "Build", actual_hours |-> actual_hours,
     timer_running |-> timer_running,
     timer_elapsed_seconds |-> timer_elapsed_seconds]

\* Task.start_timer
start_timer(t) ==
    IF ~t.timer_running THEN [t EXCEPT !.timer_running = TRUE] ELSE t

\* Task.stop_timer(elapsed_seconds): hours_worked = elapsed_seconds / 3600
\* is added to actual_hours (or becomes it when actual_hours is None or 0)
stop_timer(t, elapsed_seconds) ==
    IF t.timer_running
    THEN [t EXCEPT !.timer_running = FALSE,
                   !.actual_hours =
                      IF Truthy(t.actual_hours)
                      THEN Hours(t.actual_hours.v + elapsed_seconds)
                      ELSE Hours(elapsed_seconds),
                   !.timer_elapsed_seconds = 0]
    ELSE t

\* what the session has done so far: ran counts the seconds the widget
\* counted while running, base is actual_hours when the editor was opened
TimerEvent(op, ran) == [op |-> op, ran |-> ran, base |-> ev.base]

\* TimerWidget._on_start, TaskFormDialog._on_timer_start and the first
\* _update_timer, which counts a second at once
TwOnStart ==
    /\ nops < MaxPresses
    /\ IF ~dlg.running
       THEN LET t == start_timer(dlg.task.v)
            IN /\ dlg' = [dlg EXCEPT !.running = TRUE,
                                     !.task = TaskObj(t),
                                     !.elapsed = @ + 1]
               /\ tasks' = <<t>>
               /\ ev' = TimerEvent("start", ev.ran + 1)
       ELSE /\ ev' = TimerEvent("start", ev.ran)
            /\ UNCHANGED <<dlg, tasks>>
    /\ nops' = nops + 1
    /\ UNCHANGED <<hp, obj, sv>>
    /\ UNCHANGED <<disk, scratch, backups, now, tick, platform, wj, last>>

\* TimerWidget._update_timer, one second after the last one
TwUpdateTimer ==
    /\ dlg.running
    /\ now < MaxTicks
    /\ now' = now + 1
    /\ dlg' = [dlg EXCEPT !.elapsed = @ + 1]
    /\ ev' = TimerEvent("tick", ev.ran + 1)
    /\ UNCHANGED <<tasks, hp, obj, sv, nops>>
    /\ UNCHANGED <<disk, scratch, backups, tick, platform, wj, last>>

\* TimerWidget._on_stop and TaskFormDialog._on_timer_stop(elapsed_seconds)
TwOnStop ==
    /\ nops < MaxPresses
    /\ IF dlg.running
       THEN LET t == stop_timer(dlg.task.v, dlg.elapsed)
            IN /\ dlg' = [dlg EXCEPT !.running = FALSE, !.task = TaskObj(t)]
               /\ tasks' = <<t>>
       ELSE UNCHANGED <<dlg, tasks>>
    /\ ev' = TimerEvent("stop", ev.ran)
    /\ nops' = nops + 1
    /\ UNCHANGED <<hp, obj, sv>>
    /\ UNCHANGED <<disk, scratch, backups, now, tick, platform, wj, last>>

\* TimerWidget._on_reset
TwOnReset ==
    /\ nops < MaxPresses
    /\ dlg' = IF ~dlg.running THEN [dlg EXCEPT !.elapsed = 0] ELSE dlg
    /\ ev' = TimerEvent("reset", ev.ran)
    /\ nops' = nops + 1
    /\ UNCHANGED <<tasks, hp, obj, sv>>
    /\ UNCHANGED <<disk, scratch, backups, now, tick, platform, wj, last>>

\* the editor is opened on a stored task whose timer is not running:
\* TimerWidget(initial_seconds = task.get_total_time_seconds())
InitTimer ==
    /\ InitFiles
    /\ platform = "posix"
    /\ hp = NoSearch
    /\ obj = NoTask
    /\ sv = NoCalls
    /\ \E h \in {NoHours, Hours(0), Hours(2)} :
          /\ tasks = <<TimedTask(h, FALSE, 0)>>
          /\ dlg = [open |-> TRUE, task |-> TaskObj(tasks[1]),
                    existing |-> TRUE, vars |-> <<>>, running |-> FALSE,
                    elapsed |-> tasks[1].timer_elapsed_seconds]
          /\ ev = [op |-> "open", ran |-> 0,
                   base |-> IF h.k = "none" THEN 0 ELSE h.v]

NextTimer ==
    \/ TwOnStart
    \/ TwUpdateTimer
    \/ TwOnStop
    \/ TwOnReset

SpecTimer == InitTimer /\ [][NextTimer]_vars

\* actual_hours as a number of 3600ths of an hour
Seconds(h) == IF h.k = "none" THEN 0 ELSE h.v

(* C28: whenever the timer is stopped, the seconds the session has added   *)
(* to actual_hours are the seconds the timer ran in the session (no second *)
(* is committed twice), and timer_elapsed_seconds is 0 after each stop.    *)
C28_TimerCommitsOnce ==
    /\ ~dlg.running
          => Seconds(dlg.task.v.actual_hours) - ev.base = ev.ran
    /\ ev.op = "stop" => dlg.task.v.timer_elapsed_seconds = 0

----------------------------------------------------------------------------
(* Recovery: calls on a collection file that was damaged.                  *)

MaxRecover == 9     \* list, get, save and delete calls in one such run
MaxDamage == 2      \* the file is damaged before this many calls were made

\* some backup of the file holds a JSON document
HasParsableBackup(bk, stem) == \E b \in BackupsOf(bk, stem) : Parsable(b.bytes)

\* the first call after the damage is any of the four, the calls before it
\* and after it are saves
NextRecover ==
    \/ nops < MaxRecover /\ last.op = "corrupt" /\ ListOp(TASKS_FILE)
    \/ nops < MaxRecover /\ last.op = "corrupt" /\ GetOp(TASKS_FILE, "a")
    \/ nops < MaxRecover /\ SaveOp(TASKS_FILE, NewEntity("Task", "a", "n1"))
    \/ nops < MaxRecover /\ last.op = "corrupt" /\ DeleteOp(TASKS_FILE, "a")
    \/ \E touch \in BOOLEAN :
          nops < MaxDamage /\ Corrupt(TASKS_FILE, TokJunk, touch)
    \/ Tick

SpecRecover == InitStore /\ [][NextRecover]_vars

(* C29: a list, get, save or delete call made on an unparsable collection  *)
(* file of which a parsable backup exists (the file was damaged after that *)
(* backup was taken) leaves a parsable backup of the file, whether the     *)
(* call returns or raises.                                                 *)
C29_ParsableBackupSurvives ==
    (/\ last.op \in {"list", "get", "save", "delete"}
     /\ last.before.exists
     /\ ~Parsable(last.before.bytes)
     /\ \E b \in last.bks : Parsable(b.bytes))
    => HasParsableBackup(backups, last.file)

----------------------------------------------------------------------------
(* Identity of the stored records under successive calls.                  *)

MaxSeq == 6         \* calls in one run on one collection file

NextDistinct ==
    \/ \E f \in Collections : nops < MaxSeq /\ OnFile(f) /\ ListOp(f)
    \/ \E f \in Collections : \E id \in Ids :
          nops < MaxSeq /\ OnFile(f) /\ GetOp(f, id)
    \/ \E f \in Collections : \E e \in Entities(f) :
          nops < MaxSeq /\ OnFile(f) /\ SaveOp(f, e)
    \/ \E f \in Collections : \E id \in Ids :
          nops < MaxSeq /\ OnFile(f) /\ DeleteOp(f, id)

SpecDistinct == InitStore /\ [][NextDistinct]_vars

\* the dicts of a collection file
Records(file) == JsonLoadList(file.bytes)

DistinctIds(ds) == \A i, j \in 1..Len(ds) : i # j => ds[i].id # ds[j].id

\* what get_all_projects / get_all_tasks would return now holds the id
ListHas(f, id) ==
    \A r \in ReadJson(f, disk[f], backups) :
       /\ GetAll(f, r).outcome = "ok"
       /\ \E i \in 1..Len(GetAll(f, r).items) : GetAll(f, r).items[i].id = id

(* C30: from a collection file whose ids are distinct, after every         *)
(* sequence of save and delete calls the stored ids are pairwise distinct, *)
(* a save changes the number of records by 0 or by 1, and get(id) returns  *)
(* a record (of that id) exactly when list() holds a record of that id.    *)
C30_IdsStayDistinct ==
    \A f \in Collections :
       /\ disk[f].exists /\ IsListText(disk[f].bytes)
       /\ DistinctIds(Records(disk[f]))
       /\ (last.op = "save" /\ last.file = f)
             => Len(Records(disk[f])) - Len(Records(last.before)) \in {0, 1}
       /\ (last.op = "get" /\ last.file = f)
             => /\ last.outcome = "ok"
                /\ (last.value.k = "obj") <=> ListHas(f, last.arg.id)
                /\ last.value.k = "obj" => last.value.v.id = last.arg.id

\* a save replaced the record of a stored id in a collection of two
C30_Witness ==
    /\ last.op = "save"
    /\ last.outcome = "ok"
    /\ Len(Records(last.before)) = 2
    /\ Len(Records(disk[last.file])) = 2
    /\ Records(disk[last.file]) # Records(last.before)

====
